---------------------------- MODULE Spec2Model ----------------------------
(***************************************************************************)
(* Model of src/app.py: the invoice text -> structured record pipeline     *)
(* (tokenizer, entity registry, scorer, candidate ranking, fallback        *)
(* extractors, validator and the pipeline driver extract_invoice_data).    *)
(*                                                                         *)
(* Text is modelled as sequences of characters; a character is a           *)
(* one-character string, except the three non-ASCII characters the source  *)
(* names, which are written "RUPEE" (U+20B9), "ENDASH" (U+2013) and        *)
(* "EMDASH" (U+2014).  A line is the sequence of its whitespace-separated  *)
(* raw words; the line's text is those words joined by single spaces.      *)
(* Scores are kept doubled (Score2 = 2 * score) because the source adds    *)
(* weight * 0.5 for a keyword that is only on the line.                    *)
(***************************************************************************)
EXTENDS Integers, Sequences, FiniteSets, TLC

\* ------------------------------------------------------------------ characters

Digit == {"0", "1", "2", "3", "4", "5", "6", "7", "8", "9"}

UpperSeq == <<"A", "B", "C", "D", "E", "F", "G", "H", "I", "J", "K", "L", "M",
              "N", "O", "P", "Q", "R", "S", "T", "U", "V", "W", "X", "Y", "Z">>

LowerSeq == <<"a", "b", "c", "d", "e", "f", "g", "h", "i", "j", "k", "l", "m",
              "n", "o", "p", "q", "r", "s", "t", "u", "v", "w", "x", "y", "z">>

Upper == {UpperSeq[i] : i \in 1..26}

Lower == {LowerSeq[i] : i \in 1..26}

Letter == Upper \cup Lower

Alnum == Letter \cup Digit

\* \w of the re module (ASCII part)
WordChar == Alnum \cup {"_"}

\* [-–—]
Dash == {"-", "ENDASH", "EMDASH"}

Space == {" "}

\* every character the model's texts are written in: the class of "."
AnyChar == WordChar \cup Dash \cup Space \cup
           {".", ",", ":", "/", "#", "@", "(", ")", "+", "&", "|", "%", "RUPEE"}

Min(a, b) == IF a <= b THEN a ELSE b

Max(a, b) == IF a >= b THEN a ELSE b

\* str.lower() / str.upper() on one character
LowerChar(c) == IF c \in Upper THEN LowerSeq[CHOOSE i \in 1..26 : UpperSeq[i] = c] ELSE c

UpperChar(c) == IF c \in Lower THEN UpperSeq[CHOOSE i \in 1..26 : LowerSeq[i] = c] ELSE c

lower(s) == [i \in 1..Len(s) |-> LowerChar(s[i])]

upper(s) == [i \in 1..Len(s) |-> UpperChar(s[i])]

\* a class under re.IGNORECASE
IC(S) == S \cup {LowerChar(c) : c \in S} \cup {UpperChar(c) : c \in S}

\* s[a:b] of Python with 1-based inclusive ends a..b
Slice(s, a, b) == IF a > b THEN <<>> ELSE [i \in 1..(b - a + 1) |-> s[a + i - 1]]

Range(s) == {s[i] : i \in 1..Len(s)}

RECURSIVE Join(_, _)
\* sep.join(words)
Join(words, sep) ==
    IF Len(words) = 0 THEN <<>>
    ELSE IF Len(words) = 1 THEN words[1]
    ELSE words[1] \o sep \o Join(Tail(words), sep)

\* ------------------------------------------------------------------ regular expressions
\* A pattern is a sequence of items.  C(S, lo, hi) is a character class repeated
\* lo..hi times, G(alts, lo, hi) a group of alternatives (each a sequence of
\* items) repeated lo..hi times, L(w) the literal text w.

Inf == 99

C(S, lo, hi) == [k |-> "c", set |-> S, alts |-> <<>>, lo |-> lo, hi |-> hi]

G(alts, lo, hi) == [k |-> "g", set |-> {}, alts |-> alts, lo |-> lo, hi |-> hi]

\* a literal, case-sensitive
L(w) == [i \in 1..Len(w) |-> C({w[i]}, 1, 1)]

\* a literal under re.IGNORECASE
LI(w) == [i \in 1..Len(w) |-> C(IC({w[i]}), 1, 1)]

RECURSIVE RunLen(_, _, _)
\* the length of the longest run of characters of S that starts at s[i]
RunLen(s, i, S) == IF i <= Len(s) /\ s[i] \in S THEN 1 + RunLen(s, i + 1, S) ELSE 0

RECURSIVE SeqEnds(_, _, _), RepEnds(_, _, _, _)

\* the ends of a class repeated lo..hi times at i, run being the run of the class there
ClassEnds(i, lo, hi, run) == {i + n : n \in lo..Min(hi, run)}

\* the positions one past the end of a match of item `it` that starts at i
ItemEnds(it, s, i) ==
    IF it.k = "c"
    THEN (IF it.hi = 1
          THEN (IF it.lo = 0 THEN {i} ELSE {}) \cup
               (IF i <= Len(s) /\ s[i] \in it.set THEN {i + 1} ELSE {})
          ELSE ClassEnds(i, it.lo, it.hi, RunLen(s, i, it.set)))
    ELSE RepEnds(it, s, {i}, 0)

\* the positions one past the end of a match of the item sequence that starts at i
SeqEnds(items, s, i) ==
    IF Len(items) = 0 THEN {i}
    ELSE UNION {SeqEnds(Tail(items), s, j) : j \in ItemEnds(Head(items), s, i)}

RepEnds(it, s, front, count) ==
    (IF count >= it.lo THEN front ELSE {}) \cup
    (IF count < Min(it.hi, Len(s) + 1) /\ front # {}
     THEN RepEnds(it, s,
                  UNION {UNION {SeqEnds(it.alts[a], s, j) : a \in DOMAIN it.alts} : j \in front},
                  count + 1)
     ELSE {})

\* pattern '^...$' against the whole of s
FullMatch(items, s) == (Len(s) + 1) \in SeqEnds(items, s, 1)

\* re.match(pattern, s) with no '$': some prefix of s matches
PrefixMatch(items, s) == SeqEnds(items, s, 1) # {}

\* re.search(pattern, s): a match starts somewhere
Search(items, s) == \E i \in 1..(Len(s) + 1) : SeqEnds(items, s, i) # {}

\* ------------------------------------------------------------------ entity registry
\* ENTITY_DEFS: per entity kind its format patterns (each with whether the source
\* pattern ends in '$'), its context keywords with their weights, and its priority.

EntityTypes == {"IFSC", "PAN", "GST", "ACCOUNT_NUMBER", "INVOICE_NUMBER", "AMOUNT",
                "DATE", "PHONE_NUMBER", "EMAIL", "PINCODE"}

\* str.strip() for the whitespace of the model
RECURSIVE strip(_)
strip(s) ==
    IF Len(s) = 0 THEN s
    ELSE IF s[1] \in Space THEN strip(Tail(s))
    ELSE IF s[Len(s)] \in Space THEN strip(Slice(s, 1, Len(s) - 1))
    ELSE s

Anchored(items) == [items |-> items, anchored |-> TRUE]

Unanchored(items) == [items |-> items, anchored |-> FALSE]

\* [ABCFGHLJPT] under re.IGNORECASE
PanHolderType == IC({"A", "B", "C", "F", "G", "H", "L", "J", "P", "T"})

\* [-\s]
DashOrSpace == {"-"} \cup Space

\* [-/]
DashOrSlash == {"-", "/"}

\* [-./]
DateSep == {"-", ".", "/"}

\* (\d{1,3}(,\d{3})+(\.\d{1,2})?|\d+\.\d{1,2})
AmountNumber ==
    G(<< <<C(Digit, 1, 3),
           G(<< <<C({","}, 1, 1), C(Digit, 3, 3)>> >>, 1, Inf),
           G(<< <<C({"."}, 1, 1), C(Digit, 1, 2)>> >>, 0, 1)>>,
         <<C(Digit, 1, Inf), C({"."}, 1, 1), C(Digit, 1, 2)>> >>, 1, 1)

\* (Jan|Feb|Mar|Apr|May|Jun|Jul|Aug|Sep|Oct|Nov|Dec) under re.IGNORECASE
MonthAbbrev ==
    G(<<LI(<<"J", "a", "n">>), LI(<<"F", "e", "b">>), LI(<<"M", "a", "r">>),
        LI(<<"A", "p", "r">>), LI(<<"M", "a", "y">>), LI(<<"J", "u", "n">>),
        LI(<<"J", "u", "l">>), LI(<<"A", "u", "g">>), LI(<<"S", "e", "p">>),
        LI(<<"O", "c", "t">>), LI(<<"N", "o", "v">>), LI(<<"D", "e", "c">>)>>, 1, 1)

IFSC_format ==
    <<Anchored(<<C(Letter, 4, 4), C({"0"}, 1, 1), C(Alnum, 6, 6)>>),
      Anchored(<<C(Letter, 4, 4), C(Digit, 7, 7)>>)>>

PAN_format ==
    <<Anchored(<<C(Letter, 5, 5), C(Digit, 4, 4), C(Letter, 1, 1)>>),
      Anchored(<<C(Letter, 3, 3), C(PanHolderType, 1, 1), C(Letter, 1, 1),
                 C(Digit, 4, 4), C(Letter, 1, 1)>>)>>

GST_format ==
    <<Anchored(<<C(Digit, 2, 2), C(Letter, 5, 5), C(Digit, 4, 4), C(Letter, 1, 1),
                 C(Alnum \ {"0"}, 1, 1), C({"Z", "z"}, 1, 1), C(Alnum, 1, 1)>>),
      Anchored(<<C(Digit, 2, 2), C(Letter, 3, 3), C(PanHolderType, 1, 1),
                 C(Letter, 1, 1), C(Digit, 4, 4), C(Letter, 1, 1),
                 C(Alnum \ {"0"}, 1, 1), C({"Z", "z"}, 1, 1), C(Alnum, 1, 1)>>)>>

ACCOUNT_NUMBER_format ==
    <<Anchored(<<C(Digit, 9, 18)>>),
      Anchored(<<C(Upper, 2, 2), C(Digit, 7, 16)>>),
      Anchored(<<C(Digit, 4, 4), C(DashOrSpace, 0, 1), C(Digit, 4, 4),
                 C(DashOrSpace, 0, 1), C(Digit, 4, 10)>>)>>

INVOICE_NUMBER_format ==
    <<Anchored(<<C(Digit, 2, 7)>>),
      Anchored(<<C(Letter, 1, 4), C(DashOrSlash, 0, 1), C(Digit, 2, 7)>>),
      Anchored(<<C(Digit, 2, 4), C(DashOrSlash, 1, 1), C(Digit, 2, 4),
                 C(DashOrSlash, 0, 1), C(Digit, 0, 4)>>),
      Anchored(LI(<<"I", "N", "V">>) \o <<C(DashOrSlash, 0, 1), C(Digit, 2, 7)>>),
      Anchored(<<C(Alnum, 4, 12)>>)>>

AMOUNT_format ==
    <<Anchored(<<AmountNumber>>),
      Anchored(<<C({"RUPEE"}, 0, 1), C(Space, 0, Inf), AmountNumber>>),
      Anchored(<<G(<<LI(<<"R", "s">>) \o <<C({"."}, 0, 1)>>, LI(<<"I", "N", "R">>)>>, 0, 1),
                 C(Space, 0, Inf), AmountNumber>>),
      Anchored(<<C(Digit, 4, Inf)>>)>>

DATE_format ==
    <<Anchored(<<C(Digit, 1, 2), C(DateSep, 1, 1), C(Space, 0, Inf),
                 G(<< <<C(Letter, 3, 3)>>, <<C(Digit, 1, 2)>> >>, 1, 1),
                 C(Space, 0, Inf), C(DateSep, 1, 1), C(Digit, 2, 4)>>),
      Anchored(<<C(Digit, 1, 2), C(DateSep, 1, 1), C(Digit, 1, 2), C(DateSep, 1, 1),
                 C(Digit, 2, 4)>>),
      Anchored(<<C(Digit, 4, 4), C(DateSep, 1, 1), C(Digit, 1, 2), C(DateSep, 1, 1),
                 C(Digit, 1, 2)>>),
      Unanchored(<<MonthAbbrev, C(Space, 1, Inf), C(Digit, 1, 2), C({","}, 0, 1),
                   C(Space, 1, Inf), C(Digit, 4, 4)>>),
      Unanchored(<<C(Digit, 1, 2), C(Space, 1, Inf), MonthAbbrev, C(Space, 1, Inf),
                   C(Digit, 2, 4)>>)>>

PHONE_NUMBER_format ==
    <<Anchored(<<C({"6", "7", "8", "9"}, 1, 1), C(Digit, 9, 9)>>),
      Anchored(<<C({"0"}, 1, 1), C(Digit, 10, 10)>>),
      Anchored(L(<<"+", "9", "1">>) \o
               <<C(DashOrSpace, 0, 1), C({"6", "7", "8", "9"}, 1, 1), C(Digit, 9, 9)>>),
      Anchored(L(<<"9", "1">>) \o
               <<C(DashOrSpace, 0, 1), C({"6", "7", "8", "9"}, 1, 1), C(Digit, 9, 9)>>),
      Anchored(<<G(<<L(<<"+", "9", "1">>), L(<<"9", "1">>), L(<<"0">>)>>, 0, 1),
                 C(DashOrSpace, 0, 1), C(Digit, 5, 5), C(DashOrSpace, 0, 1),
                 C(Digit, 5, 5)>>)>>

EMAIL_format ==
    <<Anchored(<<C(Alnum \cup {".", "_", "%", "+", "-"}, 1, Inf), C({"@"}, 1, 1),
                 C(Alnum \cup {".", "-"}, 1, Inf), C({"."}, 1, 1), C(Letter, 2, Inf)>>)>>

PINCODE_format == <<Anchored(<<C(Digit, 6, 6)>>)>>

IFSC_context_keywords ==
    <<<<<<"i", "f", "s", "c">>, 10>>, <<<<"c", "o", "d", "e">>, 4>>,
      <<<<"b", "a", "n", "k">>, 5>>, <<<<"b", "r", "a", "n", "c", "h">>, 4>>,
      <<<<"r", "t", "g", "s">>, 3>>, <<<<"n", "e", "f", "t">>, 3>>,
      <<<<"i", "m", "p", "s">>, 3>>, <<<<"s", "w", "i", "f", "t">>, 2>>>>

PAN_context_keywords ==
    <<<<<<"p", "a", "n">>, 10>>,
      <<<<"p", "e", "r", "m", "a", "n", "e", "n", "t">>, 6>>,
      <<<<"a", "c", "c", "o", "u", "n", "t">>, 4>>,
      <<<<"n", "u", "m", "b", "e", "r">>, 3>>, <<<<"t", "i", "n">>, 5>>,
      <<<<"t", "a", "x">>, 3>>, <<<<"p", "a", "y", "e", "r">>, 2>>>>

GST_context_keywords ==
    <<<<<<"g", "s", "t">>, 10>>, <<<<"g", "s", "t", "i", "n">>, 12>>,
      <<<<"t", "i", "n">>, 6>>, <<<<"t", "a", "x">>, 5>>,
      <<<<"i", "d", "e", "n", "t", "i", "f", "i", "c", "a", "t", "i", "o", "n">>, 4>>,
      <<<<"v", "a", "t">>, 3>>,
      <<<<"r", "e", "g", "i", "s", "t", "r", "a", "t", "i", "o", "n">>, 3>>>>

ACCOUNT_NUMBER_context_keywords ==
    <<<<<<"a", "c", "c", "o", "u", "n", "t">>, 10>>,
      <<<<"n", "u", "m", "b", "e", "r">>, 5>>, <<<<"a", "c">>, 8>>,
      <<<<"a", "/", "c">>, 10>>, <<<<"a", "c", "c">>, 8>>,
      <<<<"b", "a", "n", "k">>, 6>>, <<<<"h", "o", "l", "d", "e", "r">>, 4>>,
      <<<<"n", "o">>, 4>>, <<<<"s", "a", "v", "i", "n", "g">>, 3>>,
      <<<<"c", "u", "r", "r", "e", "n", "t">>, 3>>,
      <<<<"b", "e", "n", "e", "f", "i", "c", "i", "a", "r", "y">>, 5>>,
      <<<<"p", "a", "y", "e", "e">>, 4>>>>

INVOICE_NUMBER_context_keywords ==
    <<<<<<"i", "n", "v", "o", "i", "c", "e">>, 12>>, <<<<"n", "o">>, 6>>,
      <<<<"n", "u", "m", "b", "e", "r">>, 5>>, <<<<"b", "i", "l", "l">>, 8>>,
      <<<<"#">>, 6>>, <<<<"d", "a", "t", "e", "d">>, 4>>, <<<<"i", "n", "v">>, 10>>,
      <<<<"v", "o", "u", "c", "h", "e", "r">>, 3>>, <<<<"r", "e", "f">>, 3>>,
      <<<<"r", "e", "f", "e", "r", "e", "n", "c", "e">>, 3>>>>

AMOUNT_context_keywords ==
    <<<<<<"a", "m", "o", "u", "n", "t">>, 12>>, <<<<"t", "o", "t", "a", "l">>, 10>>,
      <<<<"g", "r", "a", "n", "d">>, 8>>, <<<<"n", "e", "t">>, 6>>,
      <<<<"p", "a", "y", "a", "b", "l", "e">>, 10>>,
      <<<<"b", "a", "l", "a", "n", "c", "e">>, 7>>, <<<<"d", "u", "e">>, 6>>,
      <<<<"r", "s">>, 5>>, <<<<"i", "n", "r">>, 5>>, <<<<"RUPEE">>, 8>>,
      <<<<"r", "a", "t", "e">>, 3>>, <<<<"v", "a", "l", "u", "e">>, 4>>,
      <<<<"s", "u", "m">>, 5>>, <<<<"p", "a", "y", "m", "e", "n", "t">>, 6>>,
      <<<<"t", "a", "x", "a", "b", "l", "e">>, 4>>,
      <<<<"s", "u", "b", "t", "o", "t", "a", "l">>, 5>>,
      <<<<"o", "u", "t", "s", "t", "a", "n", "d", "i", "n", "g">>, 5>>>>

DATE_context_keywords ==
    <<<<<<"d", "a", "t", "e">>, 10>>, <<<<"d", "a", "t", "e", "d">>, 12>>,
      <<<<"i", "n", "v", "o", "i", "c", "e">>, 5>>, <<<<"o", "n">>, 3>>,
      <<<<"d", "a", "y">>, 4>>, <<<<"i", "s", "s", "u", "e", "d">>, 6>>,
      <<<<"c", "r", "e", "a", "t", "e", "d">>, 4>>,
      <<<<"g", "e", "n", "e", "r", "a", "t", "e", "d">>, 4>>, <<<<"d", "t">>, 6>>>>

PHONE_NUMBER_context_keywords ==
    <<<<<<"p", "h", "o", "n", "e">>, 12>>, <<<<"p", "h">>, 9>>,
      <<<<"t", "e", "l">>, 9>>, <<<<"m", "o", "b", "i", "l", "e">>, 12>>,
      <<<<"m", "o", "b">>, 10>>, <<<<"c", "e", "l", "l">>, 8>>,
      <<<<"c", "o", "n", "t", "a", "c", "t">>, 7>>, <<<<"f", "a", "x">>, 7>>,
      <<<<"w", "h", "a", "t", "s", "a", "p", "p">>, 9>>,
      <<<<"h", "e", "l", "p", "l", "i", "n", "e">>, 5>>, <<<<"t", "o", "l", "l">>, 5>>,
      <<<<"c", "a", "l", "l">>, 5>>, <<<<"p", "h", "o", "n", "e", ":">>, 12>>,
      <<<<"p", "h", ":">>, 9>>, <<<<"t", "e", "l", ":">>, 9>>,
      <<<<"m", "o", "b", "i", "l", "e", ":">>, 12>>, <<<<"m", "o", "b", ":">>, 10>>,
      <<<<"f", "a", "x", ":">>, 7>>, <<<<"c", "o", "n", "t", "a", "c", "t", ":">>, 7>>,
      <<<<"w", "h", "a", "t", "s", "a", "p", "p", ":">>, 9>>>>

EMAIL_context_keywords ==
    <<<<<<"e", "m", "a", "i", "l">>, 12>>, <<<<"e", "-", "m", "a", "i", "l">>, 10>>,
      <<<<"m", "a", "i", "l">>, 6>>, <<<<"c", "o", "n", "t", "a", "c", "t">>, 4>>,
      <<<<"@">>, 10>>>>

PINCODE_context_keywords ==
    <<<<<<"p", "i", "n">>, 10>>, <<<<"p", "i", "n", "c", "o", "d", "e">>, 12>>,
      <<<<"p", "o", "s", "t", "a", "l">>, 8>>, <<<<"z", "i", "p">>, 6>>,
      <<<<"c", "o", "d", "e">>, 4>>>>

ENTITY_DEFS ==
    [IFSC |-> [format |-> IFSC_format, context_keywords |-> IFSC_context_keywords,
               priority |-> 9],
     PAN |-> [format |-> PAN_format, context_keywords |-> PAN_context_keywords,
              priority |-> 8],
     GST |-> [format |-> GST_format, context_keywords |-> GST_context_keywords,
              priority |-> 8],
     ACCOUNT_NUMBER |-> [format |-> ACCOUNT_NUMBER_format,
                         context_keywords |-> ACCOUNT_NUMBER_context_keywords,
                         priority |-> 7],
     INVOICE_NUMBER |-> [format |-> INVOICE_NUMBER_format,
                         context_keywords |-> INVOICE_NUMBER_context_keywords,
                         priority |-> 6],
     AMOUNT |-> [format |-> AMOUNT_format, context_keywords |-> AMOUNT_context_keywords,
                 priority |-> 8],
     DATE |-> [format |-> DATE_format, context_keywords |-> DATE_context_keywords,
               priority |-> 7],
     PHONE_NUMBER |-> [format |-> PHONE_NUMBER_format,
                       context_keywords |-> PHONE_NUMBER_context_keywords,
                       priority |-> 5],
     EMAIL |-> [format |-> EMAIL_format, context_keywords |-> EMAIL_context_keywords,
                priority |-> 6],
     PINCODE |-> [format |-> PINCODE_format,
                  context_keywords |-> PINCODE_context_keywords, priority |-> 4]]

\* one format pattern against a text: pattern.match(text)
PatternMatch(p, text) ==
    IF p.anchored THEN FullMatch(p.items, text) ELSE PrefixMatch(p.items, text)

\* "for pattern in format_patterns: if pattern.match(token.text.strip())": some
\* format pattern of the entity kind matches the stripped text
FormatMatched(entity_type, text) ==
    \E i \in DOMAIN ENTITY_DEFS[entity_type].format :
        PatternMatch(ENTITY_DEFS[entity_type].format[i], strip(text))

\* NEGATIVE_CONTEXT with the words "phone" and "phone:" left out
NEGATIVE_CONTEXT_without_phone ==
    {<<"p", "h">>, <<"p", "h", ".">>, <<"t", "e", "l">>,
     <<"t", "e", "l", ".">>, <<"m", "o", "b", "i", "l", "e">>, <<"m", "o", "b">>,
     <<"m", "o", "b", ".">>, <<"c", "e", "l", "l">>,
     <<"c", "o", "n", "t", "a", "c", "t">>, <<"f", "a", "x">>, <<"f", "a", "x", ".">>,
     <<"h", "e", "l", "p", "l", "i", "n", "e">>, <<"t", "o", "l", "l">>,
     <<"w", "h", "a", "t", "s", "a", "p", "p">>, <<"c", "a", "l", "l">>,
     <<"s", "m", "s">>, <<"i", "s", "d">>, <<"s", "t", "d">>,
     <<"p", "h", ":">>, <<"t", "e", "l", ":">>,
     <<"m", "o", "b", "i", "l", "e", ":">>, <<"m", "o", "b", ":">>,
     <<"f", "a", "x", ":">>, <<"c", "o", "n", "t", "a", "c", "t", ":">>,
     <<"w", "h", "a", "t", "s", "a", "p", "p", ":">>,
     <<"h", "e", "l", "p", "l", "i", "n", "e", ":">>, <<"p", "a", "g", "e">>,
     <<"o", "f">>, <<"c", "o", "p", "y">>, <<"o", "r", "i", "g", "i", "n", "a", "l">>,
     <<"d", "u", "p", "l", "i", "c", "a", "t", "e">>,
     <<"t", "r", "i", "p", "l", "i", "c", "a", "t", "e">>, <<"p", "i", "n">>,
     <<"p", "i", "n", "c", "o", "d", "e">>, <<"p", "o", "s", "t", "a", "l">>,
     <<"z", "i", "p">>}

NEGATIVE_CONTEXT ==
    {<<"p", "h", "o", "n", "e">>, <<"p", "h">>, <<"p", "h", ".">>, <<"t", "e", "l">>,
     <<"t", "e", "l", ".">>, <<"m", "o", "b", "i", "l", "e">>, <<"m", "o", "b">>,
     <<"m", "o", "b", ".">>, <<"c", "e", "l", "l">>,
     <<"c", "o", "n", "t", "a", "c", "t">>, <<"f", "a", "x">>, <<"f", "a", "x", ".">>,
     <<"h", "e", "l", "p", "l", "i", "n", "e">>, <<"t", "o", "l", "l">>,
     <<"w", "h", "a", "t", "s", "a", "p", "p">>, <<"c", "a", "l", "l">>,
     <<"s", "m", "s">>, <<"i", "s", "d">>, <<"s", "t", "d">>,
     <<"p", "h", "o", "n", "e", ":">>, <<"p", "h", ":">>, <<"t", "e", "l", ":">>,
     <<"m", "o", "b", "i", "l", "e", ":">>, <<"m", "o", "b", ":">>,
     <<"f", "a", "x", ":">>, <<"c", "o", "n", "t", "a", "c", "t", ":">>,
     <<"w", "h", "a", "t", "s", "a", "p", "p", ":">>,
     <<"h", "e", "l", "p", "l", "i", "n", "e", ":">>, <<"p", "a", "g", "e">>,
     <<"o", "f">>, <<"c", "o", "p", "y">>, <<"o", "r", "i", "g", "i", "n", "a", "l">>,
     <<"d", "u", "p", "l", "i", "c", "a", "t", "e">>,
     <<"t", "r", "i", "p", "l", "i", "c", "a", "t", "e">>, <<"p", "i", "n">>,
     <<"p", "i", "n", "c", "o", "d", "e">>, <<"p", "o", "s", "t", "a", "l">>,
     <<"z", "i", "p">>}

\* ------------------------------------------------------------------ tokenizer

\* [A-Za-z.]
LabelEnd == Letter \cup {"."}

\* [:–—-]
TrailSep == {":"} \cup Dash

\* Pattern 1, '^(.*?[A-Za-z.])[-–—]+([A-Za-z0-9].*)$': p is the end of group 1 and
\* q the end of the dash run
P1Match(s, p, q) ==
    /\ s[p] \in LabelEnd
    /\ p < q /\ q < Len(s)
    /\ \A i \in (p + 1)..q : s[i] \in Dash
    /\ s[q + 1] \in Alnum

\* Pattern 2, '^(.*?[A-Za-z.]):([A-Za-z0-9].*)$': p is the end of group 1
P2Match(s, p) ==
    /\ s[p] \in LabelEnd
    /\ p + 2 <= Len(s)
    /\ s[p + 1] = ":"
    /\ s[p + 2] \in Alnum

\* Pattern 3, '^([A-Za-z]+)/(.+)$': p is the end of group 1
P3Match(s, p) ==
    /\ p >= 1 /\ p + 2 <= Len(s)
    /\ \A i \in 1..p : s[i] \in Letter
    /\ s[p + 1] = "/"

\* Pattern 4, '^(.*?[A-Za-z.])[:–—-]+$': p is the end of group 1
P4Match(s, p) ==
    /\ s[p] \in LabelEnd
    /\ p < Len(s)
    /\ \A i \in (p + 1)..Len(s) : s[i] \in TrailSep

\* the lazy '.*?' takes the shortest group 1 for which the rest matches
Shortest(S) == CHOOSE p \in S : \A r \in S : p <= r

\* "x in s" for a text x
Contains(s, x) ==
    \E i \in 1..(Len(s) - Len(x) + 1) : Slice(s, i, i + Len(x) - 1) = x

_split_glued_patterns(token_text) ==
    LET s == token_text
        n == Len(s)
        p1 == {p \in 1..n : \E q \in (p + 1)..n : P1Match(s, p, q)}
        p2 == {p \in 1..n : P2Match(s, p)}
        p3 == {p \in 1..n : P3Match(s, p)}
        p4 == {p \in 1..n : P4Match(s, p)}
    IN  IF p1 # {}
        THEN LET p == Shortest(p1)
                 q == CHOOSE q \in (p + 1)..n : P1Match(s, p, q)
                 label == strip(Slice(s, 1, p))
                 value == strip(Slice(s, q + 1, n))
             IN  IF Len(label) > 0 /\ Len(value) > 0 THEN <<label, value>>
                 ELSE <<label>>
        ELSE IF p2 # {}
        THEN LET p == Shortest(p2)
             IN  <<strip(Slice(s, 1, p)), strip(Slice(s, p + 2, n))>>
        ELSE IF /\ Contains(s, <<"/">>) /\ ~Contains(s, <<"@">>)
                /\ ~Contains(s, <<":", "/", "/">>)
                /\ p3 # {}
                /\ Shortest(p3) > 1
        THEN LET p == Shortest(p3)
             IN  <<strip(Slice(s, 1, p)), strip(Slice(s, p + 2, n))>>
        ELSE IF p4 # {}
        THEN <<strip(Slice(s, 1, Shortest(p4)))>>
        ELSE <<s>>

\* str.isupper(): at least one cased character and no lower-case one
isupper(s) == (\E i \in 1..Len(s) : s[i] \in Upper) /\ (\A i \in 1..Len(s) : s[i] \notin Lower)

RECURSIVE ExpandLine(_)
\* "for t in raw_tokens: line_tokens_text.extend(_split_glued_patterns(t))"
ExpandLine(raw_tokens) ==
    IF Len(raw_tokens) = 0 THEN <<>>
    ELSE _split_glued_patterns(Head(raw_tokens)) \o ExpandLine(Tail(raw_tokens))

context_window == 6

\* the tokens of one non-blank line; line_idx counts from 0 as in the source
LineTokens(line, line_idx) ==
    LET ltt == ExpandLine(line)
    IN  [t \in 1..Len(ltt) |->
            [text |-> ltt[t],
             pos0 |-> (line_idx = 0 /\ t = 1),
             line_idx |-> line_idx,
             line |-> line,
             prev_tokens |-> Slice(ltt, Max(1, t - context_window), t - 1),
             next_tokens |-> Slice(ltt, t + 1, Min(Len(ltt), t + context_window)),
             is_bold |-> (isupper(ltt[t]) /\ Len(ltt[t]) > 2)]]

RECURSIVE TokenizeFrom(_, _)
TokenizeFrom(lines, i) ==
    IF i > Len(lines) THEN <<>>
    ELSE (IF Len(lines[i]) = 0 THEN <<>> ELSE LineTokens(lines[i], i - 1))
         \o TokenizeFrom(lines, i + 1)

\* tokenize(text): text is the sequence of its lines, a blank line the empty
\* sequence of words; pos0 stands for "token.pos == 0"
tokenize(text) == TokenizeFrom(text, 1)

\* ------------------------------------------------------------------ scorer

RECURSIVE SplitRuns(_, _, _)
\* the maximal runs of word characters of w from position i on, cur being the
\* run that ends before i
SplitRuns(w, i, cur) ==
    IF i > Len(w) THEN (IF Len(cur) > 0 THEN {cur} ELSE {})
    ELSE IF w[i] \in WordChar THEN SplitRuns(w, i + 1, Append(cur, w[i]))
    ELSE (IF Len(cur) > 0 THEN {cur} ELSE {}) \cup SplitRuns(w, i + 1, <<>>)

\* re.split(r'\W+', w): the maximal runs of word characters of w (the empty
\* strings the split also yields are no keyword and are left out)
WordRuns(w) == SplitRuns(w, 1, <<>>)

\* "[w.lower() for w in re.split(r'\W+', token.line)]" as a set; the blanks
\* between the words of the line are \W
LineWords(line) == UNION {{lower(x) : x \in WordRuns(line[i])} : i \in 1..Len(line)}

\* "[t.lower() for t in token.prev_tokens + token.next_tokens]" as a set
Surrounding(token) ==
    {lower(token.prev_tokens[i]) : i \in 1..Len(token.prev_tokens)} \cup
    {lower(token.next_tokens[i]) : i \in 1..Len(token.next_tokens)}

\* all_context = surrounding + line_words
AllContext(token) == Surrounding(token) \cup LineWords(token.line)

\* the keywords of "has_phone_context"
PhoneContextWords ==
    {<<"p", "h", "o", "n", "e">>, <<"m", "o", "b", "i", "l", "e">>, <<"t", "e", "l">>,
     <<"c", "o", "n", "t", "a", "c", "t">>, <<"m", "o", "b">>, <<"f", "a", "x">>,
     <<"w", "h", "a", "t", "s", "a", "p", "p">>}

RECURSIVE SumOver(_, _, _)
\* the sum of f[i] for i in lo..hi
SumOver(f, lo, hi) == IF lo > hi THEN 0 ELSE f[lo] + SumOver(f, lo + 1, hi)

\* token.prev_tokens[-1] and token.next_tokens[0] in lower case, "" when missing
AdjacentBefore(token) ==
    IF Len(token.prev_tokens) > 0 THEN lower(token.prev_tokens[Len(token.prev_tokens)])
    ELSE <<>>

AdjacentAfter(token) ==
    IF Len(token.next_tokens) > 0 THEN lower(token.next_tokens[1]) ELSE <<>>

\* the doubled contribution of the context keyword kw of weight `weight`:
\* the weight, +8 for each side it is adjacent on, when it is a surrounding token;
\* half the weight when it is only a word of the line
KeywordScore2(kw, weight, surrounding, line_words, before, after) ==
    IF kw \in surrounding
    THEN 2 * weight + (IF before = kw THEN 16 ELSE 0) + (IF after = kw THEN 16 ELSE 0)
    ELSE IF kw \in line_words THEN weight
    ELSE 0

\* the doubled keyword score of the kind's context keywords
KeywordsScore2(kws, surrounding, line_words, before, after) ==
    SumOver([i \in 1..Len(kws) |->
                KeywordScore2(lower(kws[i][1]), kws[i][2], surrounding, line_words,
                              before, after)],
            1, Len(kws))

\* "other_context_score": the weights of the other kind's keywords in all_context
OtherContextScore(kws, all_context) ==
    SumOver([i \in 1..Len(kws) |-> IF lower(kws[i][1]) \in all_context THEN kws[i][2] ELSE 0],
            1, Len(kws))

\* -25 above 10, -15 above 5, doubled
PenaltyFor2(other_context_score) ==
    IF other_context_score > 10 THEN 50 ELSE IF other_context_score > 5 THEN 30 ELSE 0

\* the doubled cross-entity penalty one other kind contributes
CrossPenalty2(text, all_context, other_type) ==
    IF FormatMatched(other_type, text)
    THEN PenaltyFor2(OtherContextScore(ENTITY_DEFS[other_type].context_keywords, all_context))
    ELSE 0

EntityOrder == <<"IFSC", "PAN", "GST", "ACCOUNT_NUMBER", "INVOICE_NUMBER", "AMOUNT",
                 "DATE", "PHONE_NUMBER", "EMAIL", "PINCODE">>

\* the doubled penalties of all the other kinds
CrossPenalties2(text, all_context, entity_type) ==
    SumOver([i \in 1..Len(EntityOrder) |->
                IF EntityOrder[i] = entity_type THEN 0
                ELSE CrossPenalty2(text, all_context, EntityOrder[i])],
            1, Len(EntityOrder))

\* +5 for pos == 0 or a ':', '-' or en dash right before the token, doubled
Position2(token) ==
    IF token.pos0 \/ AdjacentBefore(token) \in {<<":">>, <<"-">>, <<"ENDASH">>}
    THEN 10 ELSE 0

\* +10 for a bold date or invoice number, doubled
Bold2(token, entity_type) ==
    IF token.is_bold /\ entity_type \in {"DATE", "INVOICE_NUMBER"} THEN 20 ELSE 0

\* the score with the negative-context check left out
ContextScore2_without_negative_check(token, entity_type, surrounding, line_words) ==
    IF entity_type = "PHONE_NUMBER"
       /\ (surrounding \cup line_words) \cap PhoneContextWords = {}
    THEN 0
    ELSE Max(100
             + KeywordsScore2(ENTITY_DEFS[entity_type].context_keywords, surrounding,
                              line_words, AdjacentBefore(token), AdjacentAfter(token))
             + Position2(token)
             + Bold2(token, entity_type)
             - CrossPenalties2(token.text, surrounding \cup line_words, entity_type)
             + 2 * ENTITY_DEFS[entity_type].priority,
             0)

\* the doubled score of a token whose text matched a format pattern of the kind:
\* 0 under negative context, else base 50 and the boosts, never below 0
ContextScore2(token, entity_type, surrounding, line_words) ==
    IF entity_type # "PHONE_NUMBER" /\ (surrounding \cup line_words) \cap NEGATIVE_CONTEXT # {}
    THEN 0
    ELSE IF entity_type = "PHONE_NUMBER"
            /\ (surrounding \cup line_words) \cap PhoneContextWords = {}
    THEN 0
    ELSE Max(100
             + KeywordsScore2(ENTITY_DEFS[entity_type].context_keywords, surrounding,
                              line_words, AdjacentBefore(token), AdjacentAfter(token))
             + Position2(token)
             + Bold2(token, entity_type)
             - CrossPenalties2(token.text, surrounding \cup line_words, entity_type)
             + 2 * ENTITY_DEFS[entity_type].priority,
             0)

\* the score with the format gate left out
score_token_for_entity_ungated(token, entity_type) ==
    ContextScore2(token, entity_type, Surrounding(token), LineWords(token.line))

\* score_token_for_entity, doubled: 2 * (the source's score).  A token whose text
\* matches no format pattern of the kind scores 0 whatever its context.
score_token_for_entity(token, entity_type) ==
    IF ~FormatMatched(entity_type, token.text) THEN 0
    ELSE ContextScore2(token, entity_type, Surrounding(token), LineWords(token.line))

\* ------------------------------------------------------------------ candidate ranking

\* re.sub(r'[-\s]', '', clean).upper()
RECURSIVE RemoveChars(_, _)
RemoveChars(s, S) ==
    IF Len(s) = 0 THEN <<>>
    ELSE (IF s[1] \in S THEN <<>> ELSE <<s[1]>>) \o RemoveChars(Tail(s), S)

clean_normalized(text) == upper(RemoveChars(strip(text), DashOrSpace))

RECURSIVE InsertByScore(_, _)
\* list.sort(key=score, reverse=True) is stable: an element goes after every
\* element already placed whose score is at least its own
InsertByScore(sorted, c) ==
    IF Len(sorted) = 0 THEN <<c>>
    ELSE IF Head(sorted).score >= c.score THEN <<Head(sorted)>> \o InsertByScore(Tail(sorted), c)
    ELSE <<c>> \o sorted

RECURSIVE SortByScore(_, _)
SortByScore(cands, i) ==
    IF i = 0 THEN <<>> ELSE InsertByScore(SortByScore(cands, i - 1), cands[i])

\* candidates.append((token, score)) if score > 0
Scored(token, score) == IF score > 0 THEN <<[token |-> token, score |-> score]>> ELSE <<>>

RECURSIVE ScanTokens(_, _, _, _)
RECURSIVE ScanToken(_, _, _, _, _)
\* ScanToken without "if clean_normalized in seen_values: continue"
ScanToken_without_seen(v, tokens, i, seen, entity_type) ==
    Scored(tokens[i], score_token_for_entity(tokens[i], entity_type))
        \o ScanTokens(tokens, i + 1, seen \cup {v}, entity_type)

\* one round of the loop of find_entity: v is the normalized text of tokens[i]
ScanToken(v, tokens, i, seen, entity_type) ==
    IF v \in seen THEN ScanTokens(tokens, i + 1, seen, entity_type)
    ELSE Scored(tokens[i], score_token_for_entity(tokens[i], entity_type))
         \o ScanTokens(tokens, i + 1, seen \cup {v}, entity_type)

\* the loop of find_entity: seen is seen_values, the result the candidates list
ScanTokens(tokens, i, seen, entity_type) ==
    IF i > Len(tokens) THEN <<>>
    ELSE ScanToken(clean_normalized(tokens[i].text), tokens, i, seen, entity_type)

top_n == 5

\* candidates.sort(key=lambda x: x[1], reverse=True); return candidates[:top_n]
TopCandidates(cands) == Slice(SortByScore(cands, Len(cands)), 1, Min(top_n, Len(cands)))

find_entity(tokens, entity_type) == TopCandidates(ScanTokens(tokens, 1, {}, entity_type))

\* ------------------------------------------------------------------ decimal numbers
\* float(s) for a text of digits and dots: the value is kept as its digits, so that
\* no machine integer bounds the amounts

DigitSeq == <<"0", "1", "2", "3", "4", "5", "6", "7", "8", "9">>

DigitVal(c) == (CHOOSE i \in 1..10 : DigitSeq[i] = c) - 1

\* str.count(c)
Count(s, c) == Cardinality({i \in 1..Len(s) : s[i] = c})

\* float(s) does not raise ValueError: digits with at most one dot, at least one
\* digit (signs, exponents and blanks do not occur in the texts of the model)
FloatOk(s) ==
    /\ \A i \in 1..Len(s) : s[i] \in Digit \cup {"."}
    /\ Count(s, ".") <= 1
    /\ \E i \in 1..Len(s) : s[i] \in Digit

DotPos(s) == IF Count(s, ".") = 0 THEN Len(s) + 1 ELSE CHOOSE i \in 1..Len(s) : s[i] = "."

RECURSIVE StripLeadingZeros(_)
StripLeadingZeros(d) ==
    IF Len(d) > 0 /\ d[1] = "0" THEN StripLeadingZeros(Tail(d)) ELSE d

RECURSIVE StripTrailingZeros(_)
StripTrailingZeros(d) ==
    IF Len(d) > 0 /\ d[Len(d)] = "0" THEN StripTrailingZeros(Slice(d, 1, Len(d) - 1)) ELSE d

\* the digits before the dot without leading zeros, and after it without trailing zeros
IntPart(s) == StripLeadingZeros(Slice(s, 1, DotPos(s) - 1))

FracPart(s) == StripTrailingZeros(Slice(s, DotPos(s) + 1, Len(s)))

RECURSIVE LexLess(_, _)
\* a < b for digit strings read from the left, a missing digit counting as 0
LexLess(a, b) ==
    IF Len(b) = 0 THEN FALSE
    ELSE IF Len(a) = 0 THEN \E i \in 1..Len(b) : b[i] # "0"
    ELSE IF a[1] # b[1] THEN DigitVal(a[1]) < DigitVal(b[1])
    ELSE LexLess(Tail(a), Tail(b))

\* float(a) < float(b)
FloatLess(a, b) ==
    LET ia == IntPart(a)
        ib == IntPart(b)
    IN  IF Len(ia) # Len(ib) THEN Len(ia) < Len(ib)
        ELSE IF ia # ib THEN LexLess(ia, ib)
        ELSE LexLess(FracPart(a), FracPart(b))

\* ------------------------------------------------------------------ table amounts

amount_keywords ==
    <<<<"a", "m", "o", "u", "n", "t">>, <<"t", "o", "t", "a", "l">>,
      <<"g", "r", "a", "n", "d", " ", "t", "o", "t", "a", "l">>,
      <<"n", "e", "t", " ", "a", "m", "o", "u", "n", "t">>,
      <<"p", "a", "y", "a", "b", "l", "e">>, <<"b", "a", "l", "a", "n", "c", "e">>,
      <<"d", "u", "e">>, <<"s", "u", "m">>, <<"v", "a", "l", "u", "e">>,
      <<"s", "u", "b", "t", "o", "t", "a", "l">>,
      <<"i", "n", "v", "o", "i", "c", "e", " ", "a", "m", "o", "u", "n", "t">>,
      <<"b", "i", "l", "l", " ", "a", "m", "o", "u", "n", "t">>>>

\* the words of "if any(word in row_text for word in [...])"
total_row_words ==
    <<<<"t", "o", "t", "a", "l">>, <<"g", "r", "a", "n", "d">>, <<"n", "e", "t">>,
      <<"p", "a", "y", "a", "b", "l", "e">>>>

\* any(k in text for k in keywords)
AnyIn(keywords, text) == \E i \in 1..Len(keywords) : Contains(text, keywords[i])

\* a header cell names an amount column; an empty cell (None or '') never does
IsAmountHeader(cell) == AnyIn(amount_keywords, strip(lower(cell)))

\* the first of the first five rows with an amount header cell, 0 when there is none
HeaderRow(table) ==
    LET rows == {r \in 1..Min(5, Len(table)) :
                    \E c \in 1..Len(table[r]) : IsAmountHeader(table[r][c])}
    IN  IF rows = {} THEN 0 ELSE CHOOSE r \in rows : \A q \in rows : r <= q

\* the first amount header cell of that row
AmountCol(table, r) ==
    LET cols == {c \in 1..Len(table[r]) : IsAmountHeader(table[r][c])}
    IN  CHOOSE c \in cols : \A d \in cols : c <= d

\* re.sub(r'[^\d,.]', '', str(cell).strip())
RECURSIVE KeepChars(_, _)
KeepChars(s, S) ==
    IF Len(s) = 0 THEN <<>>
    ELSE (IF s[1] \in S THEN <<s[1]>> ELSE <<>>) \o KeepChars(Tail(s), S)

\* the score of a cell with the bonus of the last row left out
CellScore_without_last_row(table, r, raw) ==
    15
    + (IF Contains(raw, <<".">>) THEN 20 ELSE 0)
    + (IF FullMatch(<<C(Digit, 1, 3), G(<< <<C({","}, 1, 1), C(Digit, 3, 3)>> >>, 0, Inf),
                      C({"."}, 1, 1), C(Digit, 2, 2)>>, raw) THEN 30 ELSE 0)
    + (IF \E c \in 1..Len(table[r]) : AnyIn(total_row_words, lower(table[r][c]))
       THEN 50 ELSE 0)

\* the score of one cell of the amount column (whole numbers, not doubled)
CellScore(table, r, raw) ==
    15
    + (IF Contains(raw, <<".">>) THEN 20 ELSE 0)
    + (IF FullMatch(<<C(Digit, 1, 3), G(<< <<C({","}, 1, 1), C(Digit, 3, 3)>> >>, 0, Inf),
                      C({"."}, 1, 1), C(Digit, 2, 2)>>, raw) THEN 30 ELSE 0)
    + (IF r = Len(table) THEN 40 ELSE 0)
    + (IF \E c \in 1..Len(table[r]) : AnyIn(total_row_words, lower(table[r][c]))
       THEN 50 ELSE 0)

\* the candidates (raw, score, val) one table contributes, in row order
RECURSIVE TableCandidates(_, _, _)
TableCandidates(table, col, r) ==
    IF r > Len(table) THEN <<>>
    ELSE LET row == table[r]
             raw == KeepChars(strip(row[col]), Digit \cup {",", "."})
             val == RemoveChars(raw, {","})
         IN  (IF /\ col <= Len(row)
                 /\ Len(row[col]) > 0
                 /\ Len(raw) > 0
                 /\ Count(raw, ".") <= 1
                 /\ FloatOk(val)
                 /\ Len(IntPart(val)) >= 1
                 /\ Len(IntPart(val)) <= 10
              THEN <<[raw |-> raw, score |-> CellScore(table, r, raw), val |-> val]>>
              ELSE <<>>)
             \o TableCandidates(table, col, r + 1)

RECURSIVE AllTableCandidates(_, _)
AllTableCandidates(tables, t) ==
    IF t > Len(tables) THEN <<>>
    ELSE (IF Len(tables[t]) < 2 \/ HeaderRow(tables[t]) = 0 THEN <<>>
          ELSE TableCandidates(tables[t], AmountCol(tables[t], HeaderRow(tables[t])),
                               HeaderRow(tables[t]) + 1))
         \o AllTableCandidates(tables, t + 1)

\* the key (score, val) of a is at least that of b
KeyGE(a, b) == a.score > b.score \/ (a.score = b.score /\ ~FloatLess(a.val, b.val))

\* extract_amount_from_tables: <<best_amount, score>>.  The stable descending sort
\* puts first the earliest candidate whose key no other candidate exceeds.
extract_amount_from_tables(tables) ==
    LET candidates == AllTableCandidates(tables, 1)
        best == candidates[CHOOSE i \in 1..Len(candidates) :
                             /\ \A j \in 1..Len(candidates) : KeyGE(candidates[i], candidates[j])
                             /\ \A j \in 1..(i - 1) : ~KeyGE(candidates[j], candidates[i])]
        best_amount == RemoveChars(best.raw, {","})
    IN  IF Len(candidates) = 0 THEN <<<<>>, 0>>
        ELSE <<IF Contains(best_amount, <<".">>) THEN best_amount
               ELSE best_amount \o <<".", "0", "0">>,
               best.score>>

\* ------------------------------------------------------------------ bank name lookup

IFSC_PREFIX_MAP ==
    <<<<<<"H", "D", "F", "C">>, <<"H", "D", "F", "C", " ", "B", "a", "n", "k">>>>,
      <<<<"I", "C", "I", "C">>, <<"I", "C", "I", "C", "I", " ", "B", "a", "n", "k">>>>,
      <<<<"S", "B", "I", "N">>, <<"S", "t", "a", "t", "e", " ", "B", "a", "n", "k", " ", "o", "f", " ", "I", "n", "d", "i", "a">>>>,
      <<<<"A", "X", "I", "S">>, <<"A", "x", "i", "s", " ", "B", "a", "n", "k">>>>,
      <<<<"K", "K", "B", "K">>, <<"K", "o", "t", "a", "k", " ", "M", "a", "h", "i", "n", "d", "r", "a", " ", "B", "a", "n", "k">>>>,
      <<<<"B", "K", "I", "D">>, <<"B", "a", "n", "k", " ", "o", "f", " ", "I", "n", "d", "i", "a">>>>,
      <<<<"P", "U", "N", "B">>, <<"P", "u", "n", "j", "a", "b", " ", "N", "a", "t", "i", "o", "n", "a", "l", " ", "B", "a", "n", "k">>>>,
      <<<<"U", "B", "I", "N">>, <<"U", "n", "i", "o", "n", " ", "B", "a", "n", "k", " ", "o", "f", " ", "I", "n", "d", "i", "a">>>>,
      <<<<"B", "A", "R", "B">>, <<"B", "a", "n", "k", " ", "o", "f", " ", "B", "a", "r", "o", "d", "a">>>>,
      <<<<"C", "N", "R", "B">>, <<"C", "a", "n", "a", "r", "a", " ", "B", "a", "n", "k">>>>,
      <<<<"I", "N", "D", "B">>, <<"I", "n", "d", "u", "s", "I", "n", "d", " ", "B", "a", "n", "k">>>>,
      <<<<"U", "T", "I", "B">>, <<"A", "x", "i", "s", " ", "B", "a", "n", "k">>>>,
      <<<<"Y", "E", "S", "B">>, <<"Y", "e", "s", " ", "B", "a", "n", "k">>>>,
      <<<<"R", "A", "T", "N">>, <<"R", "B", "L", " ", "B", "a", "n", "k">>>>,
      <<<<"B", "D", "B", "L">>, <<"B", "a", "n", "d", "h", "a", "n", " ", "B", "a", "n", "k">>>>,
      <<<<"F", "D", "R", "L">>, <<"F", "e", "d", "e", "r", "a", "l", " ", "B", "a", "n", "k">>>>,
      <<<<"S", "I", "B", "L">>, <<"S", "o", "u", "t", "h", " ", "I", "n", "d", "i", "a", "n", " ", "B", "a", "n", "k">>>>,
      <<<<"K", "V", "B", "L">>, <<"K", "a", "r", "u", "r", " ", "V", "y", "s", "y", "a", " ", "B", "a", "n", "k">>>>,
      <<<<"T", "M", "B", "L">>, <<"T", "a", "m", "i", "l", "n", "a", "d", " ", "M", "e", "r", "c", "a", "n", "t", "i", "l", "e", " ", "B", "a", "n", "k">>>>,
      <<<<"C", "I", "T", "I">>, <<"C", "i", "t", "i", "b", "a", "n", "k">>>>,
      <<<<"H", "S", "B", "C">>, <<"H", "S", "B", "C">>>>,
      <<<<"S", "C", "B", "L">>, <<"S", "t", "a", "n", "d", "a", "r", "d", " ", "C", "h", "a", "r", "t", "e", "r", "e", "d", " ", "B", "a", "n", "k">>>>,
      <<<<"D", "B", "S", "S">>, <<"D", "B", "S", " ", "B", "a", "n", "k">>>>,
      <<<<"I", "O", "B", "A">>, <<"I", "n", "d", "i", "a", "n", " ", "O", "v", "e", "r", "s", "e", "a", "s", " ", "B", "a", "n", "k">>>>,
      <<<<"I", "D", "I", "B">>, <<"I", "n", "d", "i", "a", "n", " ", "B", "a", "n", "k">>>>,
      <<<<"M", "A", "H", "B">>, <<"B", "a", "n", "k", " ", "o", "f", " ", "M", "a", "h", "a", "r", "a", "s", "h", "t", "r", "a">>>>,
      <<<<"U", "C", "B", "A">>, <<"U", "C", "O", " ", "B", "a", "n", "k">>>>,
      <<<<"C", "B", "I", "N">>, <<"C", "e", "n", "t", "r", "a", "l", " ", "B", "a", "n", "k", " ", "o", "f", " ", "I", "n", "d", "i", "a">>>>,
      <<<<"A", "L", "L", "A">>, <<"A", "l", "l", "a", "h", "a", "b", "a", "d", " ", "B", "a", "n", "k">>>>,
      <<<<"C", "O", "R", "P">>, <<"C", "o", "r", "p", "o", "r", "a", "t", "i", "o", "n", " ", "B", "a", "n", "k">>>>,
      <<<<"A", "N", "D", "B">>, <<"A", "n", "d", "h", "r", "a", " ", "B", "a", "n", "k">>>>,
      <<<<"V", "I", "J", "B">>, <<"V", "i", "j", "a", "y", "a", " ", "B", "a", "n", "k">>>>,
      <<<<"A", "I", "R", "P">>, <<"A", "i", "r", "t", "e", "l", " ", "P", "a", "y", "m", "e", "n", "t", "s", " ", "B", "a", "n", "k">>>>,
      <<<<"P", "Y", "T", "M">>, <<"P", "a", "y", "t", "m", " ", "P", "a", "y", "m", "e", "n", "t", "s", " ", "B", "a", "n", "k">>>>,
      <<<<"J", "I", "O", "P">>, <<"J", "i", "o", " ", "P", "a", "y", "m", "e", "n", "t", "s", " ", "B", "a", "n", "k">>>>>>

\* derive_bank_name with the prefix cut one character short (ifsc[:3])
derive_bank_name_short_prefix(ifsc) ==
    IF Len(ifsc) < 4 THEN <<>>
    ELSE LET prefix == upper(Slice(ifsc, 1, 3))
             hits == {i \in 1..Len(IFSC_PREFIX_MAP) : IFSC_PREFIX_MAP[i][1] = prefix}
         IN  IF hits = {} THEN prefix ELSE IFSC_PREFIX_MAP[CHOOSE i \in hits : TRUE][2]

\* derive_bank_name without .upper(): prefix = ifsc[:4]
derive_bank_name_without_upper(ifsc) ==
    IF Len(ifsc) < 4 THEN <<>>
    ELSE LET prefix == Slice(ifsc, 1, 4)
             hits == {i \in 1..Len(IFSC_PREFIX_MAP) : IFSC_PREFIX_MAP[i][1] = prefix}
         IN  IF hits = {} THEN prefix ELSE IFSC_PREFIX_MAP[CHOOSE i \in hits : TRUE][2]

\* derive_bank_name(ifsc)
derive_bank_name(ifsc) ==
    IF Len(ifsc) < 4 THEN <<>>
    ELSE LET prefix == upper(Slice(ifsc, 1, 4))
             hits == {i \in 1..Len(IFSC_PREFIX_MAP) : IFSC_PREFIX_MAP[i][1] = prefix}
         IN  IF hits = {} THEN prefix ELSE IFSC_PREFIX_MAP[CHOOSE i \in hits : TRUE][2]

\* ------------------------------------------------------------------ validation engine
\* A warning is [msg, arg]: the fixed text of the message and the value an
\* f-string puts into it (<<>> when the message has none).

Warning(msg, arg) == [msg |-> msg, arg |-> arg]

\* str.isdigit() on the texts of the model
isdigit(s) == Len(s) > 0 /\ \A i \in 1..Len(s) : s[i] \in Digit

TenMillion == <<"1", "0", "0", "0", "0", "0", "0", "0">>

\* the warnings about the amount, "try: amt_val = float(amount) ...".  The two
\* range warnings print amt_val, the float parsed from the amount; arg records
\* the amount text that float was parsed from.
AmountWarnings(amount) ==
    IF Len(amount) = 0 THEN <<>>
    ELSE IF ~FloatOk(amount) THEN <<Warning("Amount is not a valid number", amount)>>
    ELSE (IF FloatLess(amount, <<"1">>)
          THEN <<Warning("Amount seems too small", amount)>> ELSE <<>>)
         \o (IF FloatLess(TenMillion, amount)
             THEN <<Warning("Amount is very large - please verify", amount)>> ELSE <<>>)

\* validate_extraction with "if not has_ifsc" for "if has_account and not has_ifsc"
validate_extraction_ifsc_alone(record) ==
    LET has_account == Len(record.Bank_Account_No) > 0
        has_ifsc == Len(record.IFSC_Code) > 0
        has_amount == Len(record.Amount) > 0
        inv == record.Invoice_No
        phone == record.Phone_Number
        errors ==
            (IF Len(record.Party_name) = 0
             THEN <<Warning("CRITICAL: Party name not detected", <<>>)>> ELSE <<>>)
            \o (IF Len(record.Invoice_Date) = 0
                THEN <<Warning("CRITICAL: Invoice date not detected", <<>>)>> ELSE <<>>)
            \o (IF Len(record.Amount) = 0
                THEN <<Warning("CRITICAL: Amount not detected", <<>>)>> ELSE <<>>)
        warnings ==
            (IF has_amount /\ ~has_account
             THEN <<Warning("Amount found but no Bank Account Number detected", <<>>)>>
             ELSE <<>>)
            \o (IF ~has_ifsc
                THEN <<Warning("Account Number found but no IFSC Code detected", <<>>)>>
                ELSE <<>>)
            \o (IF has_ifsc /\ ~has_account
                THEN <<Warning("IFSC Code found but no Account Number detected", <<>>)>>
                ELSE <<>>)
            \o (IF Len(inv) > 0
                THEN (IF Len(inv) > 12
                      THEN <<Warning("Invoice No. is unusually long - may be misclassified", inv)>>
                      ELSE <<>>)
                     \o (IF isdigit(inv) /\ Len(inv) = 10
                         THEN <<Warning("Invoice No. looks like a phone number", inv)>>
                         ELSE <<>>)
                ELSE <<Warning("Invoice Number not detected", <<>>)>>)
            \o (IF Len(phone) > 0 /\ Len(KeepChars(phone, Digit)) # 10
                THEN <<Warning("Phone Number has unusual length", phone)>> ELSE <<>>)
            \o (IF Len(record.PAN_Number_GST) = 0
                THEN <<Warning("PAN/GST not detected", <<>>)>> ELSE <<>>)
            \o AmountWarnings(record.Amount)
    IN  errors \o warnings

\* validate_extraction(record): errors + warnings
validate_extraction(record) ==
    LET has_account == Len(record.Bank_Account_No) > 0
        has_ifsc == Len(record.IFSC_Code) > 0
        has_amount == Len(record.Amount) > 0
        inv == record.Invoice_No
        phone == record.Phone_Number
        errors ==
            (IF Len(record.Party_name) = 0
             THEN <<Warning("CRITICAL: Party name not detected", <<>>)>> ELSE <<>>)
            \o (IF Len(record.Invoice_Date) = 0
                THEN <<Warning("CRITICAL: Invoice date not detected", <<>>)>> ELSE <<>>)
            \o (IF Len(record.Amount) = 0
                THEN <<Warning("CRITICAL: Amount not detected", <<>>)>> ELSE <<>>)
        warnings ==
            (IF has_amount /\ ~has_account
             THEN <<Warning("Amount found but no Bank Account Number detected", <<>>)>>
             ELSE <<>>)
            \o (IF has_account /\ ~has_ifsc
                THEN <<Warning("Account Number found but no IFSC Code detected", <<>>)>>
                ELSE <<>>)
            \o (IF has_ifsc /\ ~has_account
                THEN <<Warning("IFSC Code found but no Account Number detected", <<>>)>>
                ELSE <<>>)
            \o (IF Len(inv) > 0
                THEN (IF Len(inv) > 12
                      THEN <<Warning("Invoice No. is unusually long - may be misclassified", inv)>>
                      ELSE <<>>)
                     \o (IF isdigit(inv) /\ Len(inv) = 10
                         THEN <<Warning("Invoice No. looks like a phone number", inv)>>
                         ELSE <<>>)
                ELSE <<Warning("Invoice Number not detected", <<>>)>>)
            \o (IF Len(phone) > 0 /\ Len(KeepChars(phone, Digit)) # 10
                THEN <<Warning("Phone Number has unusual length", phone)>> ELSE <<>>)
            \o (IF Len(record.PAN_Number_GST) = 0
                THEN <<Warning("PAN/GST not detected", <<>>)>> ELSE <<>>)
            \o AmountWarnings(record.Amount)
    IN  errors \o warnings

\* the fields of the record a warning of validate_extraction speaks of
WarningSubjects(msg) ==
    CASE msg = "CRITICAL: Party name not detected" -> {"Party_name"}
      [] msg = "CRITICAL: Invoice date not detected" -> {"Invoice_Date"}
      [] msg = "CRITICAL: Amount not detected" -> {"Amount"}
      [] msg = "Amount found but no Bank Account Number detected" ->
             {"Amount", "Bank_Account_No"}
      [] msg = "Account Number found but no IFSC Code detected" ->
             {"Bank_Account_No", "IFSC_Code"}
      [] msg = "IFSC Code found but no Account Number detected" ->
             {"IFSC_Code", "Bank_Account_No"}
      [] msg = "Invoice No. is unusually long - may be misclassified" -> {"Invoice_No"}
      [] msg = "Invoice No. looks like a phone number" -> {"Invoice_No", "Phone_Number"}
      [] msg = "Invoice Number not detected" -> {"Invoice_No"}
      [] msg = "Phone Number has unusual length" -> {"Phone_Number"}
      [] msg = "PAN/GST not detected" -> {"PAN_Number_GST"}
      [] msg = "Amount is not a valid number" -> {"Amount"}
      [] msg = "Amount seems too small" -> {"Amount"}
      [] msg = "Amount is very large - please verify" -> {"Amount"}
      [] OTHER -> {}

\* some warning of the list speaks of both fields
WarnsAbout(warns, field1, field2) ==
    \E i \in 1..Len(warns) : {field1, field2} \subseteq WarningSubjects(warns[i].msg)

\* ------------------------------------------------------------------ inline bank details

\* re.search(prefix + group, s).group(1): the match starts at the leftmost position
\* at which prefix and then the group match; of the ways the prefix can end
\* there, the greedy '\s*' that closes every prefix tries the furthest first.
\* GroupLen(j) is the length of the group when it starts at j, 0 when it does
\* not match there.  The result is <<>> when there is no match.
SearchGroup(prefix, GroupLen(_), s) ==
    LET Ends(i) == {j \in SeqEnds(prefix, s, i) : GroupLen(j) > 0}
        starts == {i \in 1..Len(s) : Ends(i) # {}}
        i0 == CHOOSE i \in starts : \A k \in starts : i <= k
        j0 == CHOOSE j \in Ends(i0) : \A k \in Ends(i0) : j >= k
    IN  IF starts = {} THEN <<>> ELSE Slice(s, j0, j0 + GroupLen(j0) - 1)

\* the same for whether there is a match at all
SearchGroupMatches(prefix, GroupLen(_), s) ==
    \E i \in 1..Len(s) : \E j \in SeqEnds(prefix, s, i) : GroupLen(j) > 0

\* (?:no|number|#)? and (?:no|number)? under re.IGNORECASE
NoNumberHash == G(<<LI(<<"n", "o">>), LI(<<"n", "u", "m", "b", "e", "r">>), L(<<"#">>)>>, 0, 1)

NoNumber == G(<<LI(<<"n", "o">>), LI(<<"n", "u", "m", "b", "e", "r">>)>>, 0, 1)

\* \s*[:–—-]\s*
SepInSpaces == <<C(Space, 0, Inf), C(TrailSep, 1, 1), C(Space, 0, Inf)>>

account_patterns ==
    <<<<G(<<LI(<<"b", "a", "n", "k">>) \o <<C(Space, 1, Inf)>> >>, 0, 1)>>
        \o LI(<<"a", "c", "c", "o", "u", "n", "t">>) \o <<C(Space, 1, Inf), NoNumberHash>>
        \o SepInSpaces,
      LI(<<"a">>) \o <<C({"/"}, 0, 1)>> \o LI(<<"c">>) \o <<C(Space, 1, Inf), NoNumber>>
        \o SepInSpaces,
      LI(<<"a", "c", "c">>) \o SepInSpaces>>

ifsc_patterns ==
    <<LI(<<"i", "f", "s", "c">>)
        \o <<C(Space, 0, Inf), G(<<LI(<<"c", "o", "d", "e">>)>>, 0, 1)>> \o SepInSpaces,
      LI(<<"r", "t", "g", "s">>)
        \o <<C(Space, 0, Inf), G(<<LI(<<"c", "o", "d", "e">>)>>, 0, 1)>> \o SepInSpaces>>

bank_name_patterns ==
    <<LI(<<"b", "a", "n", "k">>) \o <<C(Space, 1, Inf)>> \o LI(<<"n", "a", "m", "e">>)
        \o SepInSpaces,
      LI(<<"b", "a", "n", "k">>) \o SepInSpaces>>

\* (\d{9,18}) at s[j], greedy
AccountGroupLen(s, j) == IF RunLen(s, j, Digit) >= 9 THEN Min(RunLen(s, j, Digit), 18) ELSE 0

\* ([A-Z]{4}[0-9A-Z]{7}) at s[j] under re.IGNORECASE
IfscGroupLen(s, j) ==
    IF RunLen(s, j, Letter) >= 4 /\ RunLen(s, j + 4, Alnum) >= 7 THEN 11 ELSE 0

\* ([A-Za-z\s&]+?)(?:,|$|\|) at s[j]: the lazy group ends where ',', '|' or
\* the end of the line follows
BankNameGroupLen(s, j) ==
    LET n == RunLen(s, j, Letter \cup Space \cup {"&"})
    IN  IF n >= 1 /\ (j + n > Len(s) \/ s[j + n] \in {",", "|"}) THEN n ELSE 0

\* the first pattern of the list that matches the line, 0 when none does
FirstPattern(patterns, GroupLen(_), s) ==
    LET hits == {p \in 1..Len(patterns) : SearchGroupMatches(patterns[p], GroupLen, s)}
    IN  IF hits = {} THEN 0 ELSE CHOOSE p \in hits : \A q \in hits : p <= q

\* the text of a line: its words joined by single blanks
LineText(line) == Join(line, <<" ">>)

\* what one line adds to result (absent keys are the empty text)
InlineLine(line, result) ==
    LET s == LineText(line)
        AccLen(j) == AccountGroupLen(s, j)
        IfscLen(j) == IfscGroupLen(s, j)
        NameLen(j) == BankNameGroupLen(s, j)
        pa == FirstPattern(account_patterns, AccLen, s)
        pi == FirstPattern(ifsc_patterns, IfscLen, s)
        pb == FirstPattern(bank_name_patterns, NameLen, s)
        bank_name == strip(SearchGroup(bank_name_patterns[pb], NameLen, s))
    IN  [account_no |-> IF pa # 0 THEN strip(SearchGroup(account_patterns[pa], AccLen, s))
                        ELSE result.account_no,
         ifsc |-> IF pi # 0 THEN strip(upper(SearchGroup(ifsc_patterns[pi], IfscLen, s)))
                  ELSE result.ifsc,
         bank_name |-> IF pb # 0 /\ Len(bank_name) > 2 THEN bank_name
                       ELSE result.bank_name]

bank_line_keywords ==
    <<<<"b", "a", "n", "k">>, <<"a", "c", "c", "o", "u", "n", "t">>, <<"i", "f", "s", "c">>>>

RECURSIVE InlineFrom(_, _, _)
InlineFrom(lines, i, result) ==
    IF i > Len(lines) THEN result
    ELSE IF ~AnyIn(bank_line_keywords, lower(LineText(lines[i])))
    THEN InlineFrom(lines, i + 1, result)
    ELSE LET r == InlineLine(lines[i], result)
         IN  IF Len(r.account_no) > 0 \/ Len(r.ifsc) > 0 THEN r
             ELSE InlineFrom(lines, i + 1, r)

\* parse_inline_bank_details(text): text is the sequence of its lines
parse_inline_bank_details(text) ==
    InlineFrom(text, 1, [account_no |-> <<>>, ifsc |-> <<>>, bank_name |-> <<>>])

\* ------------------------------------------------------------------ date normalizer

\* MONTH_MAP restricted to the three-letter keys, the only ones
\* "m.group(2).lower()[:3]" can produce
MONTH_MAP ==
    <<<<<<"j", "a", "n">>, <<"0", "1">>>>, <<<<"f", "e", "b">>, <<"0", "2">>>>,
      <<<<"m", "a", "r">>, <<"0", "3">>>>, <<<<"a", "p", "r">>, <<"0", "4">>>>,
      <<<<"m", "a", "y">>, <<"0", "5">>>>, <<<<"j", "u", "n">>, <<"0", "6">>>>,
      <<<<"j", "u", "l">>, <<"0", "7">>>>, <<<<"a", "u", "g">>, <<"0", "8">>>>,
      <<<<"s", "e", "p">>, <<"0", "9">>>>, <<<<"o", "c", "t">>, <<"1", "0">>>>,
      <<<<"n", "o", "v">>, <<"1", "1">>>>, <<<<"d", "e", "c">>, <<"1", "2">>>>>>

\* MONTH_MAP.get(name.lower()[:3], '01')
MonthNumber(name) ==
    LET key == lower(Slice(name, 1, 3))
        hits == {i \in 1..Len(MONTH_MAP) : MONTH_MAP[i][1] = key}
    IN  IF hits = {} THEN <<"0", "1">> ELSE MONTH_MAP[CHOOSE i \in hits : TRUE][2]

\* str.zfill(2)
zfill2(d) == IF Len(d) < 2 THEN <<"0">> \o d ELSE d

\* ExpandYear without the pivot at 50: year = '20' + year
ExpandYear_always_twenty(year) ==
    IF Len(year) = 2 THEN <<"2", "0">> \o year ELSE year

\* ExpandYear without "if len(year) == 2": every year gets the century
ExpandYear_without_length_test(year) ==
    IF 10 * DigitVal(year[1]) + DigitVal(year[2]) <= 50
    THEN <<"2", "0">> \o year ELSE <<"1", "9">> \o year

\* "if len(year) == 2: year = '20' + year if int(year) <= 50 else '19' + year"
ExpandYear(year) ==
    IF Len(year) = 2
    THEN IF 10 * DigitVal(year[1]) + DigitVal(year[2]) <= 50
         THEN <<"2", "0">> \o year ELSE <<"1", "9">> \o year
    ELSE year

\* f"{day}-{month}-{year}"
DayMonthYear(day, month, year) == day \o <<"-">> \o month \o <<"-">> \o year

\* [-./\s]
DateSepOrSpace == DateSep \cup Space

\* normalize_date(date_str).  Each pattern is matched from the start of the text
\* (re.match); a greedy group followed by a class disjoint from its own takes the
\* whole run, so a group matches only if the run has an admissible length.
normalize_date(date_str) ==
    LET s == strip(date_str)
        \* Pattern 1: (\d{1,2})[-./\s]+([A-Za-z]{3,9})[-./\s]+(\d{2,4})
        d1 == RunLen(s, 1, Digit)
        g1 == RunLen(s, d1 + 1, DateSepOrSpace)
        m1 == RunLen(s, d1 + g1 + 1, Letter)
        h1 == RunLen(s, d1 + g1 + m1 + 1, DateSepOrSpace)
        y1 == RunLen(s, d1 + g1 + m1 + h1 + 1, Digit)
        \* Pattern 2: ([A-Za-z]{3,9})\s+(\d{1,2}),?\s+(\d{4})
        m2 == RunLen(s, 1, Letter)
        g2 == RunLen(s, m2 + 1, Space)
        d2 == RunLen(s, m2 + g2 + 1, Digit)
        c2 == RunLen(s, m2 + g2 + d2 + 1, {","})
        k2 == IF c2 >= 1 THEN 1 ELSE 0
        h2 == RunLen(s, m2 + g2 + d2 + k2 + 1, Space)
        y2 == RunLen(s, m2 + g2 + d2 + k2 + h2 + 1, Digit)
        \* Pattern 3: (\d{1,2})[-./](\d{1,2})[-./](\d{2,4})
        m3 == RunLen(s, d1 + 2, Digit)
        y3 == RunLen(s, d1 + m3 + 3, Digit)
        \* Pattern 4: (\d{4})[-./](\d{1,2})[-./](\d{1,2})
        m4 == RunLen(s, 6, Digit)
        d4 == RunLen(s, m4 + 7, Digit)
    IN  IF Len(s) = 0 THEN <<>>
        ELSE IF d1 \in 1..2 /\ g1 >= 1 /\ m1 \in 3..9 /\ h1 >= 1 /\ y1 >= 2
        THEN DayMonthYear(zfill2(Slice(s, 1, d1)),
                          MonthNumber(Slice(s, d1 + g1 + 1, d1 + g1 + m1)),
                          ExpandYear(Slice(s, d1 + g1 + m1 + h1 + 1,
                                           d1 + g1 + m1 + h1 + Min(y1, 4))))
        ELSE IF m2 \in 3..9 /\ g2 >= 1 /\ d2 \in 1..2 /\ h2 >= 1 /\ y2 >= 4
        THEN DayMonthYear(zfill2(Slice(s, m2 + g2 + 1, m2 + g2 + d2)),
                          MonthNumber(Slice(s, 1, m2)),
                          Slice(s, m2 + g2 + d2 + k2 + h2 + 1, m2 + g2 + d2 + k2 + h2 + 4))
        ELSE IF /\ d1 \in 1..2 /\ d1 + 1 <= Len(s) /\ s[d1 + 1] \in DateSep
                /\ m3 \in 1..2 /\ d1 + m3 + 2 <= Len(s) /\ s[d1 + m3 + 2] \in DateSep
                /\ y3 >= 2
        THEN DayMonthYear(zfill2(Slice(s, 1, d1)),
                          zfill2(Slice(s, d1 + 2, d1 + m3 + 1)),
                          ExpandYear(Slice(s, d1 + m3 + 3, d1 + m3 + 2 + Min(y3, 4))))
        ELSE IF /\ d1 = 4 /\ 5 <= Len(s) /\ s[5] \in DateSep
                /\ m4 \in 1..2 /\ m4 + 6 <= Len(s) /\ s[m4 + 6] \in DateSep
                /\ d4 >= 1
        THEN DayMonthYear(zfill2(Slice(s, m4 + 7, m4 + 6 + Min(d4, 2))),
                          zfill2(Slice(s, 6, m4 + 5)),
                          Slice(s, 1, 4))
        ELSE s

\* ------------------------------------------------------------------ party name and address

RECURSIVE ConcatRange(_, _, _)
\* F(lo) \o F(lo + 1) \o ... \o F(hi)
ConcatRange(F(_), lo, hi) == IF lo > hi THEN <<>> ELSE F(lo) \o ConcatRange(F, lo + 1, hi)

\* the largest and the smallest element of a non-empty set of numbers
SetMax(S) == CHOOSE e \in S : \A f \in S : e >= f

SetMin(S) == CHOOSE e \in S : \A f \in S : e <= f

RECURSIVE AltEndFrom(_, _, _, _)
RECURSIVE AltPick(_, _, _, _, _)
\* ends are the ends of alternative a at s[i]: its furthest end, or the next
\* alternative when it does not match
AltPick(ends, alts, s, i, a) ==
    IF ends # {} THEN SetMax(ends) ELSE AltEndFrom(alts, s, i, a + 1)

AltEndFrom(alts, s, i, a) ==
    IF a > Len(alts) THEN 0 ELSE AltPick(SeqEnds(alts[a], s, i), alts, s, i, a)

\* the furthest end of a match of one of the alternatives at s[i], trying the
\* alternatives in order as '|' does; 0 when none matches there
AltEnd(alts, s, i) == AltEndFrom(alts, s, i, 1)

\* re.search(alt1|alt2|..., s)
HasAlt(alts, s) == \E k \in 1..Len(s) : AltEnd(alts, s, k) > 0

RECURSIVE RemoveAll(_, _, _)
RECURSIVE RemoveStep(_, _, _, _)
\* e is the end of the match at s[i], 0 when there is none
RemoveStep(e, alts, s, i) ==
    IF e > i THEN RemoveAll(alts, s, e) ELSE <<s[i]>> \o RemoveAll(alts, s, i + 1)

\* re.sub(alt1|alt2|..., '', s) from position i on (no alternative matches the
\* empty text)
RemoveAll(alts, s, i) ==
    IF i > Len(s) THEN <<>> ELSE RemoveStep(AltEnd(alts, s, i), alts, s, i)

\* s up to the first of the positions at
CutAt(at, s) == IF at = {} THEN s ELSE Slice(s, 1, SetMin(at) - 1)

\* re.sub(r'(alt1|alt2|...).*$', '', s): s up to the first match
CutAtFirst(alts, s) == CutAt({i \in 1..Len(s) : AltEnd(alts, s, i) > i}, s)

\* account\s+holder|beneficiary|payee under re.IGNORECASE
holder_labels ==
    <<LI(<<"a", "c", "c", "o", "u", "n", "t">>) \o <<C(Space, 1, Inf)>>
        \o LI(<<"h", "o", "l", "d", "e", "r">>),
      LI(<<"b", "e", "n", "e", "f", "i", "c", "i", "a", "r", "y">>),
      LI(<<"p", "a", "y", "e", "e">>)>>

\* (account\s+holder|beneficiary|payee|name|:|-) under re.IGNORECASE
holder_noise == holder_labels \o <<LI(<<"n", "a", "m", "e">>), L(<<":">>), L(<<"-">>)>>

company_suffixes ==
    <<LI(<<"p", "v", "t">>) \o <<C({"."}, 0, 1), C(Space, 0, Inf)>> \o LI(<<"l", "t", "d">>)
        \o <<C({"."}, 0, 1)>>,
      LI(<<"p", "r", "i", "v", "a", "t", "e">>) \o <<C(Space, 1, Inf)>>
        \o LI(<<"l", "i", "m", "i", "t", "e", "d">>),
      LI(<<"l", "l", "p">>),
      LI(<<"l", "i", "m", "i", "t", "e", "d">>),
      LI(<<"l", "t", "d">>) \o <<C({"."}, 0, 1)>>,
      LI(<<"i", "n", "c">>) \o <<C({"."}, 0, 1)>>,
      LI(<<"c", "o", "r", "p", "o", "r", "a", "t", "i", "o", "n">>),
      LI(<<"e", "n", "t", "e", "r", "p", "r", "i", "s", "e", "s">>),
      LI(<<"i", "n", "d", "u", "s", "t", "r", "i", "e", "s">>),
      LI(<<"t", "r", "a", "d", "e", "r", "s">>)>>

\* (INVOICE|BILL|TAX|GST|PAN) under re.IGNORECASE
document_words ==
    <<LI(<<"I", "N", "V", "O", "I", "C", "E">>), LI(<<"B", "I", "L", "L">>),
      LI(<<"T", "A", "X">>), LI(<<"G", "S", "T">>), LI(<<"P", "A", "N">>)>>

\* (INVOICE|BILL|ORIGINAL|COPY|PAGE|\d+), case-sensitive
header_noise ==
    <<L(<<"I", "N", "V", "O", "I", "C", "E">>), L(<<"B", "I", "L", "L">>),
      L(<<"O", "R", "I", "G", "I", "N", "A", "L">>), L(<<"C", "O", "P", "Y">>),
      L(<<"P", "A", "G", "E">>), <<C(Digit, 1, Inf)>>>>

skip_words ==
    <<<<"i", "n", "v", "o", "i", "c", "e">>, <<"p", "h", "o", "n", "e">>,
      <<"e", "m", "a", "i", "l">>, <<"a", "d", "d", "r", "e", "s", "s">>,
      <<"g", "s", "t">>, <<"p", "a", "n">>, <<"d", "a", "t", "e">>,
      <<"t", "o", "t", "a", "l">>, <<"a", "m", "o", "u", "n", "t">>,
      <<"b", "a", "n", "k">>, <<"i", "f", "s", "c">>, <<"b", "i", "l", "l">>,
      <<"t", "a", "x">>, <<"o", "r", "i", "g", "i", "n", "a", "l">>,
      <<"c", "o", "p", "y">>, <<"p", "a", "g", "e">>>>

\* [A-Za-z\s\.&,\-]
NameChar == Letter \cup Space \cup {".", "&", ",", "-"}

Candidate(name, score) == [name |-> name, score |-> score]

\* Strategy 1, one line after the label: what is left of it without the labels
HolderCandidate(candidate) ==
    IF /\ Len(candidate) > 3 /\ Len(candidate) < 100
       /\ \A k \in 1..Len(candidate) : candidate[k] \in NameChar
    THEN <<Candidate(candidate, 50 + (IF isupper(candidate) THEN 15 ELSE 0))>>
    ELSE <<>>

\* Strategy 1: the lines at and after an account-holder label
HolderCandidates(lines) ==
    LET At(j) == HolderCandidate(strip(RemoveAll(holder_noise, LineText(lines[j]), 1)))
        From(i) ==
            IF HasAlt(holder_labels, LineText(lines[i]))
            THEN ConcatRange(At, i, Min(i + 2, Len(lines)))
            ELSE <<>>
    IN  ConcatRange(From, 1, Len(lines))

\* Strategy 2, line i: clean is the line up to its first document word
SuffixCandidate(line, clean, i) ==
    IF /\ HasAlt(company_suffixes, line)
       /\ Len(clean) > 5 /\ Len(clean) < 100
    THEN <<Candidate(clean, 60 + (IF isupper(line) THEN 10 ELSE 0)
                               + (IF i - 1 <= 5 THEN 15 ELSE 0))>>
    ELSE <<>>

\* Strategy 2: a line of the first 15 with a company suffix
SuffixCandidates(lines) ==
    LET At(i) == SuffixCandidate(LineText(lines[i]),
                                 strip(CutAtFirst(document_words, LineText(lines[i]))), i)
    IN  ConcatRange(At, 1, Min(15, Len(lines)))

\* Strategy 3, line i
HeaderCandidate(line, i) ==
    IF /\ Len(line) > 5 /\ Len(line) < 80
       /\ line[1] \in Upper
       /\ \A k \in 2..Len(line) : line[k] \in NameChar \cup {"(", ")"}
       /\ ~AnyIn(skip_words, lower(line))
    THEN <<Candidate(line, 35 + (IF i - 1 <= 2 THEN 20 ELSE 0)
                              + (IF isupper(line) THEN 10 ELSE 0)
                              + (IF Len(line) > 15 THEN 5 ELSE 0))>>
    ELSE <<>>

\* Strategy 3: a capitalised line of the first 8 that carries no label word
HeaderCandidates(lines) ==
    LET At(i) == HeaderCandidate(LineText(lines[i]), i)
    IN  ConcatRange(At, 1, Min(8, Len(lines)))

\* '^[A-Z][A-Za-z\s\.&,\-]+$' and 5 < len(candidate) < 80
IsPostInvoiceName(c) ==
    /\ Len(c) > 5 /\ Len(c) < 80
    /\ c[1] \in Upper
    /\ \A k \in 2..Len(c) : c[k] \in NameChar

\* Strategy 4, a line: js are the name-like lines of the three after it
PostInvoiceCandidate(lines, line, js) ==
    IF /\ Len(line) >= 7
       /\ lower(Slice(line, 1, 7)) = <<"i", "n", "v", "o", "i", "c", "e">>
       /\ (Len(line) = 7 \/ line[8] \notin WordChar)
       /\ js # {}
    THEN <<Candidate(LineText(lines[SetMin(js)]), 40)>>
    ELSE <<>>

\* Strategy 4: the first name-like line of the three after an INVOICE heading
PostInvoiceCandidates(lines) ==
    LET At(i) == PostInvoiceCandidate(lines, LineText(lines[i]),
                                      {j \in (i + 1)..Min(i + 3, Len(lines)) :
                                          IsPostInvoiceName(LineText(lines[j]))})
    IN  ConcatRange(At, 1, Len(lines))

\* Strategy 5, line i: clean is the line without its heading words and numbers
CapsCandidate(line, clean, i) ==
    IF /\ isupper(line) /\ Len(line) > 8 /\ Len(line) < 80
       /\ Len(clean) > 5
    THEN <<Candidate(clean, 30 + (IF i - 1 <= 3 THEN 15 ELSE 0))>>
    ELSE <<>>

\* Strategy 5: an upper-case line of the first 10
CapsCandidates(lines) ==
    LET At(i) == CapsCandidate(LineText(lines[i]),
                               strip(RemoveAll(header_noise, LineText(lines[i]), 1)), i)
    IN  ConcatRange(At, 1, Min(10, Len(lines)))

\* the candidates that are the first of their upper-cased name
KeptCandidates(cands) ==
    {i \in 1..Len(cands) :
        \A j \in 1..(i - 1) : strip(upper(cands[j].name)) # strip(upper(cands[i].name))}

\* the earliest of the kept candidates of the highest score
BestCandidate(cands, kept) ==
    CHOOSE i \in kept :
        /\ \A j \in kept : cands[i].score >= cands[j].score
        /\ \A j \in kept : j < i => cands[j].score < cands[i].score

NameAndScore(c) == <<c.name, c.score>>

\* the de-duplication keeps the first of each upper-cased name; the stable
\* descending sort then puts first the earliest kept candidate of the highest score
TopCandidate(cands) ==
    IF Len(cands) = 0 THEN <<<<>>, 0>>
    ELSE NameAndScore(cands[BestCandidate(cands, KeptCandidates(cands))])

\* extract_party_name(text, tokens): <<name, score>>
extract_party_name(lines) ==
    TopCandidate(HolderCandidates(lines) \o SuffixCandidates(lines)
                 \o HeaderCandidates(lines) \o PostInvoiceCandidates(lines)
                 \o CapsCandidates(lines))

address_keywords ==
    <<<<"a", "d", "d", "r", "e", "s", "s">>, <<"b", "i", "l", "l", " ", "t", "o">>,
      <<"s", "h", "i", "p", " ", "t", "o">>,
      <<"b", "i", "l", "l", "i", "n", "g", " ", "a", "d", "d", "r", "e", "s", "s">>,
      <<"s", "h", "i", "p", "p", "i", "n", "g", " ", "a", "d", "d", "r", "e", "s", "s">>>>

\* ^(INVOICE|BILL|GST|PAN|AMOUNT) under re.IGNORECASE
section_headers ==
    <<LI(<<"I", "N", "V", "O", "I", "C", "E">>), LI(<<"B", "I", "L", "L">>),
      LI(<<"G", "S", "T">>), LI(<<"P", "A", "N">>), LI(<<"A", "M", "O", "U", "N", "T">>)>>

RECURSIVE AddressLines(_, _, _)
\* the lines collected after an address keyword, from line j up to line hi
AddressLines(lines, j, hi) ==
    IF j > hi THEN <<>>
    ELSE LET addr_line == LineText(lines[j])
         IN  IF Len(addr_line) > 3
             THEN IF AltEnd(section_headers, addr_line, 1) > 0 THEN <<>>
                  ELSE <<addr_line>> \o AddressLines(lines, j + 1, hi)
             ELSE AddressLines(lines, j + 1, hi)

\* extract_address(text, lines): every candidate scores 50, so the first one wins
extract_address(lines) ==
    LET found == {i \in 1..Len(lines) :
                     /\ AnyIn(address_keywords, lower(LineText(lines[i])))
                     /\ Len(AddressLines(lines, i + 1, Min(i + 6, Len(lines)))) > 0}
        first == CHOOSE i \in found : \A k \in found : i <= k
        address_lines == AddressLines(lines, first + 1, Min(first + 6, Len(lines)))
    IN  IF found = {} THEN <<>>
        ELSE Join(Slice(address_lines, 1, Min(5, Len(address_lines))), <<",", " ">>)

\* ------------------------------------------------------------------ inputs
\* The lines documents are written with.  A document is a sequence of at most
\* MaxLines entries, each a line of LineLibrary or a page break; the entries
\* between two page breaks are the text of one page, and a page with no entry has
\* no text (extract_text() gives None).  The tables of the document, if any, are
\* on its first page.

W_Total == <<"T", "o", "t", "a", "l">>

W_Rupee == <<"RUPEE">>

W_TenThousandSlash == <<"1", "0", ",", "0", "0", "0", "/", "-">>

W_PhoneColon == <<"P", "h", "o", "n", "e", ":">>

W_Phone91 == <<"9", "1", "9", "8", "7", "6", "5", "4", "3", "2", "1", "0">>

W_Phone10 == <<"9", "8", "7", "6", "5", "4", "3", "2", "1", "0">>

W_Account == <<"A", "c", "c", "o", "u", "n", "t">>

W_noDotDash == <<"n", "o", ".", "-">>

W_Acc15 == <<"4", "5", "0", "0", "1", "0", "1", "1", "0", "0", "1", "7", "1", "2", "3">>

W_IFSC == <<"I", "F", "S", "C">>

W_CodeColon == <<"C", "o", "d", "e", ":">>

W_BKID == <<"B", "K", "I", "D", "0", "0", "0", "4", "5", "0", "0">>

W_NoColon == <<"N", "o", ":">>

W_Mobile == <<"M", "o", "b", "i", "l", "e">>

W_AslashC == <<"A", "/", "c">>

W_NoDot == <<"N", "o", ".">>

\* 1234-5678-901234567d: a 20-character grouped number, 18 digits
Grouped(d) == <<"1", "2", "3", "4", "-", "5", "6", "7", "8", "-",
                "9", "0", "1", "2", "3", "4", "5", "6", "7", d>>

W_bankParen == <<"(", "b", "a", "n", "k", ")">>

W_aslashc == <<"a", "/", "c">>

W_noColon == <<"n", "o", ":">>

W_Acc9 == <<"1", "2", "3", "4", "5", "6", "7", "8", "9">>

W_Grand == <<"G", "r", "a", "n", "d">>

W_ThreeThousand == <<"3", ",", "0", "0", "0", ".", "0", "0">>

W_Invoice == <<"I", "n", "v", "o", "i", "c", "e">>

W_INV1234 == <<"I", "N", "V", "-", "1", "2", "3", "4">>

\* "Total RUPEE 10,000/-" (scenario B)
TotalLine == <<W_Total, W_Rupee, W_TenThousandSlash>>

\* "Phone: 919876543210" (scenario D)
PhoneLine == <<W_PhoneColon, W_Phone91>>

\* "Account no.- 450010110017123" and "IFSC Code: BKID0004500" (scenario A)
AccountLine == <<W_Account, W_noDotDash, W_Acc15>>

IfscLine == <<W_IFSC, W_CodeColon, W_BKID>>

\* "Account No: 9876543210 Mobile"
AccountMobileLine == <<W_Account, W_NoColon, W_Phone10, W_Mobile>>

\* "Mobile 9876543210" and "Account No: 9876543210"
MobileLine == <<W_Mobile, W_Phone10>>

AccountNoLine == <<W_Account, W_NoColon, W_Phone10>>

\* "A/c No." and five grouped numbers of 18 digits
GroupedLine ==
    <<W_AslashC, W_NoDot, Grouped("1"), Grouped("2"), Grouped("3"), Grouped("4"), Grouped("5")>>

\* "(bank) a/c no: 123456789"
BankAcLine == <<W_bankParen, W_aslashc, W_noColon, W_Acc9>>

\* "Grand Total 3,000.00"
GrandTotalLine == <<W_Grand, W_Total, W_ThreeThousand>>

\* "Invoice No: INV-1234"
InvoiceLine == <<W_Invoice, W_NoColon, W_INV1234>>

LineLibrary ==
    {TotalLine, PhoneLine, AccountLine, IfscLine, AccountMobileLine, MobileLine,
     AccountNoLine, GroupedLine, BankAcLine, GrandTotalLine, InvoiceLine}

PageBreak == <<<<"PAGEBREAK">>>>

MaxLines == 2

RECURSIVE SeqsUpTo(_, _)
\* the sequences of at most n elements of S
SeqsUpTo(S, n) ==
    IF n = 0 THEN {<<>>}
    ELSE LET shorter == SeqsUpTo(S, n - 1)
         IN  shorter \cup {Append(q, x) : q \in {r \in shorter : Len(r) = n - 1}, x \in S}

W_Description == <<"D", "e", "s", "c", "r", "i", "p", "t", "i", "o", "n">>

W_Amount == <<"A", "m", "o", "u", "n", "t">>

W_Service == <<"S", "e", "r", "v", "i", "c", "e">>

W_Tax == <<"T", "a", "x">>

W_FiveForty == <<"5", "4", "0", ".", "0", "0">>

\* the table of scenario C under a header row [Description, Amount]
ScenarioTable ==
    <<<<W_Description, W_Amount>>, <<W_Service, W_ThreeThousand>>, <<W_Tax, W_FiveForty>>>>

TableChoices == {<<>>, <<ScenarioTable>>}

Documents == [entries : SeqsUpTo(LineLibrary \cup {PageBreak}, MaxLines), tables : TableChoices]

RECURSIVE PagesOf(_, _)
\* the texts of the pages of a document: cur is the page being collected
PagesOf(entries, cur) ==
    IF Len(entries) = 0 THEN <<cur>>
    ELSE IF Head(entries) = PageBreak THEN <<cur>> \o PagesOf(Tail(entries), <<>>)
    ELSE PagesOf(Tail(entries), Append(cur, Head(entries)))

\* ------------------------------------------------------------------ pipeline state

VARIABLES
    pc,             \* the position of the run
    pdf_file,       \* the document given to extract_invoice_data
    full_text,      \* the lines of full_text
    all_tables,
    tokens,
    candidates,     \* the candidate lists of find_entity, per entity kind
    sel,            \* the values chosen so far: ifsc, pan, gst, inv_no, acc_no, ...
    inline_bank,
    record,
    warnings,
    result,         \* what extract_invoice_data returned
    token,          \* the token given to score_token_for_entity on its own
    scores,         \* its doubled scores, per entity kind
    tables_in,      \* the tables given to extract_amount_from_tables on its own
    table_out,
    record_in,      \* the record given to validate_extraction on its own
    warnings_out,
    opens,          \* whether pdfplumber.open(pdf_file) succeeds
    debug_mode,     \* the debug_mode argument of extract_invoice_data
    debug_info,     \* the debug trace it returns
    run,            \* which call of extract_invoice_data this is
    previous,       \* the first call: its document, its flag and what it returned
    ifsc_in,        \* the code given to derive_bank_name on its own
    bank_out,
    date_in,        \* the text given to normalize_date on its own
    date_out,       \* normalize_date(date_in) and normalize_date of that
    lines_in,       \* the lines of the text given to extract_party_name on its own
    party_out,
    uploaded_files, \* the files of a batch: what extract_invoice_data does on each
    idx,            \* the index of the loop over uploaded_files
    all_data,
    failed_files

pipeVars == <<pdf_file, full_text, all_tables, tokens, candidates, sel, inline_bank,
              record, warnings, result>>

scoreVars == <<token, scores>>

tableVars == <<tables_in, table_out>>

validateVars == <<record_in, warnings_out>>

runVars == <<opens, debug_mode, debug_info, run, previous>>

bankVars == <<ifsc_in, bank_out>>

dateVars == <<date_in, date_out>>

partyVars == <<lines_in, party_out>>

batchVars == <<uploaded_files, idx, all_data, failed_files>>

callVars == <<bankVars, dateVars, partyVars, batchVars>>

vars == <<pc, pipeVars, scoreVars, tableVars, validateVars, runVars, callVars>>

NoCandidates == [e \in EntityTypes |-> <<>>]

NoSelection ==
    [ifsc |-> <<>>, pan |-> <<>>, gst |-> <<>>, inv_no |-> <<>>, acc_no |-> <<>>,
     inv_date |-> <<>>, amount |-> <<>>, party_name |-> <<>>, phone_no |-> <<>>,
     email |-> <<>>, pan_gst |-> <<>>, bank_name |-> <<>>, address |-> <<>>]

NoInlineBank == [account_no |-> <<>>, ifsc |-> <<>>, bank_name |-> <<>>]

EmptyRecord ==
    [Party_name |-> <<>>, Invoice_Date |-> <<>>, Invoice_No |-> <<>>, Amount |-> <<>>,
     Phone_Number |-> <<>>, Email |-> <<>>, Address |-> <<>>, Bank_Name |-> <<>>,
     Bank_Account_No |-> <<>>, IFSC_Code |-> <<>>, PAN_Number_GST |-> <<>>]

\* result before the return; returned is FALSE until extract_invoice_data returns
NoResult == [returned |-> FALSE, has_record |-> FALSE, record |-> EmptyRecord, warnings |-> <<>>]

NoToken ==
    [text |-> <<>>, pos0 |-> FALSE, line_idx |-> 0, line |-> <<>>, prev_tokens |-> <<>>,
     next_tokens |-> <<>>, is_bold |-> FALSE]

NoScores == [e \in EntityTypes |-> 0]

PipeIdle ==
    /\ full_text = <<>> /\ all_tables = <<>> /\ tokens = <<>>
    /\ candidates = NoCandidates /\ sel = NoSelection /\ inline_bank = NoInlineBank
    /\ record = EmptyRecord /\ warnings = <<>> /\ result = NoResult

ScoreIdle == token = NoToken /\ scores = NoScores

TableIdle == tables_in = <<>> /\ table_out = <<<<>>, 0>>

ValidateIdle == record_in = EmptyRecord /\ warnings_out = <<>>

\* debug_info = ""
NoDebug == [kind |-> "empty"]

\* no call before this one
NoCall == [pdf_file |-> [entries |-> <<>>, tables |-> <<>>], debug_mode |-> FALSE,
           result |-> NoResult, debug_info |-> NoDebug]

\* one call of extract_invoice_data, on a file that opens, without debug trace
RunIdle ==
    /\ opens = TRUE /\ debug_mode = FALSE /\ debug_info = NoDebug
    /\ run = 1 /\ previous = NoCall

BankIdle == ifsc_in = <<>> /\ bank_out = <<>>

DateIdle == date_in = <<>> /\ date_out = <<<<>>, <<>>>>

PartyIdle == lines_in = <<>> /\ party_out = <<<<>>, 0>>

BatchIdle == uploaded_files = <<>> /\ idx = 0 /\ all_data = <<>> /\ failed_files = <<>>

CallIdle == BankIdle /\ DateIdle /\ PartyIdle /\ BatchIdle

\* the state when extract_invoice_data is called on a document
Init ==
    /\ pc = "start"
    /\ pdf_file \in Documents
    /\ PipeIdle /\ ScoreIdle /\ TableIdle /\ ValidateIdle /\ RunIdle /\ CallIdle


\* ------------------------------------------------------------------ extract_invoice_data

RECURSIVE Str(_)
\* str(n) for a natural number
Str(n) == IF n < 10 THEN <<DigitSeq[n + 1]>> ELSE Str(n \div 10) \o <<DigitSeq[(n % 10) + 1]>>

PageHeader(n) == << <<"-", "-", "-">>, <<"P", "A", "G", "E">>, Str(n), <<"-", "-", "-">> >>

\* "if page_text:": the text of a page is its lines joined by "\n", and it is
\* the empty string when the page has no line or one line without a word
HasPageText(page) == Len(page) > 1 \/ (Len(page) = 1 /\ Len(page[1]) > 0)

RECURSIVE FullText(_, _)
\* the lines of full_text without the last one: every page with text adds
\* "\n--- PAGE {n} ---\n{page_text}\n", which is a blank line, the header and the
\* lines of the page; the "\n" that ends it starts the blank line of the next page
FullText(pages, n) ==
    IF n > Len(pages) THEN <<>>
    ELSE (IF HasPageText(pages[n]) THEN << <<>>, PageHeader(n)>> \o pages[n] ELSE <<>>)
         \o FullText(pages, n + 1)

\* pdfplumber.open(pdf_file) succeeds: the file of the second call always opens
CanOpen == opens \/ run = 2

\* the loop over pdf.pages
ExtractPages ==
    /\ pc = "start"
    /\ CanOpen
    /\ LET pages == PagesOf(pdf_file.entries, <<>>)
           body == FullText(pages, 1)
       IN  full_text' = IF Len(body) > 0 THEN Append(body, <<>>) ELSE <<>>
    /\ all_tables' = pdf_file.tables
    /\ pc' = "check_text"
    /\ UNCHANGED <<pdf_file, tokens, candidates, sel, inline_bank, record, warnings, result>>
    /\ UNCHANGED <<scoreVars, tableVars, validateVars, runVars, callVars>>

\* not full_text.strip()
NoText(text) == \A i \in 1..Len(text) : Len(text[i]) = 0

\* if not full_text.strip(): return None, ["No text extracted ..."], "", ""
ReturnNoText ==
    /\ pc = "check_text"
    /\ NoText(full_text)
    /\ result' = [returned |-> TRUE, has_record |-> FALSE, record |-> EmptyRecord,
                  warnings |-> <<Warning("No text extracted - PDF may be image-based or corrupted",
                                         <<>>)>>]
    /\ pc' = "done"
    /\ UNCHANGED <<pdf_file, full_text, all_tables, tokens, candidates, sel, inline_bank,
                   record, warnings>>
    /\ UNCHANGED <<scoreVars, tableVars, validateVars, runVars, callVars>>

\* tokens = tokenize(full_text)
Tokenize ==
    /\ pc = "check_text"
    /\ ~NoText(full_text)
    /\ tokens' = tokenize(full_text)
    /\ pc' = "detect"
    /\ UNCHANGED <<pdf_file, full_text, all_tables, candidates, sel, inline_bank, record,
                   warnings, result>>
    /\ UNCHANGED <<scoreVars, tableVars, validateVars, runVars, callVars>>

\* the entity kinds extract_invoice_data asks find_entity for
DetectedTypes == EntityTypes \ {"PINCODE"}

\* DetectEntities with candidate lists that outlive the call: a list that is not
\* empty is kept
DetectEntities_keeping_candidates ==
    /\ pc = "detect"
    /\ candidates' = [e \in EntityTypes |->
                         IF Len(candidates[e]) > 0 THEN candidates[e]
                         ELSE IF e \in DetectedTypes THEN find_entity(tokens, e) ELSE <<>>]
    /\ pc' = "select_ifsc"
    /\ UNCHANGED <<pdf_file, full_text, all_tables, tokens, sel, inline_bank, record,
                   warnings, result>>
    /\ UNCHANGED <<scoreVars, tableVars, validateVars, runVars, callVars>>

\* ifsc_candidates = find_entity(tokens, "IFSC") ... email_candidates
DetectEntities ==
    /\ pc = "detect"
    /\ candidates' = [e \in EntityTypes |->
                         IF e \in DetectedTypes THEN find_entity(tokens, e) ELSE <<>>]
    /\ pc' = "select_ifsc"
    /\ UNCHANGED <<pdf_file, full_text, all_tables, tokens, sel, inline_bank, record,
                   warnings, result>>
    /\ UNCHANGED <<scoreVars, tableVars, validateVars, runVars, callVars>>

\* what a block of the selection leaves alone: it changes sel and pc only
SelectionFrame ==
    /\ UNCHANGED <<pdf_file, full_text, all_tables, tokens, candidates, inline_bank, record,
                   warnings, result>>
    /\ UNCHANGED <<scoreVars, tableVars, validateVars, runVars, callVars>>

\* the stripped text of candidate i of a kind
CandidateText(e, i) == strip(candidates[e][i].token.text)

\* the first index of 1..n with P, or 0
FirstIndex(n, P(_)) ==
    IF \E i \in 1..n : P(i) THEN CHOOSE i \in 1..n : P(i) /\ \A j \in 1..(i - 1) : ~P(j) ELSE 0

IfscShape == <<C(Upper, 4, 4), C(Upper \cup Digit, 7, 7)>>

PanShape == <<C(Upper, 5, 5), C(Digit, 4, 4), C(Upper, 1, 1)>>

\* the top candidate in upper case if it has the shape, else ""
TopIfShaped(e, Shaped(_)) ==
    IF Len(candidates[e]) > 0 /\ Shaped(upper(CandidateText(e, 1)))
    THEN upper(CandidateText(e, 1)) ELSE <<>>

SelectIFSC ==
    /\ pc = "select_ifsc"
    /\ LET Shaped(t) == FullMatch(IfscShape, t)
       IN  sel' = [sel EXCEPT !.ifsc = TopIfShaped("IFSC", Shaped)]
    /\ pc' = "select_pan"
    /\ SelectionFrame

SelectPAN ==
    /\ pc = "select_pan"
    /\ LET Shaped(t) == FullMatch(PanShape, t)
       IN  sel' = [sel EXCEPT !.pan = TopIfShaped("PAN", Shaped)]
    /\ pc' = "select_gst"
    /\ SelectionFrame

SelectGST ==
    /\ pc = "select_gst"
    /\ LET Shaped(t) == Len(t) = 15
       IN  sel' = [sel EXCEPT !.gst = TopIfShaped("GST", Shaped)]
    /\ pc' = "select_inv"
    /\ SelectionFrame

\* the text of candidate i of a kind, "" for i = 0
ChosenText(e, i) == IF i > 0 THEN CandidateText(e, i) ELSE <<>>

\* Invoice Number - must not match account number
SelectInvoiceNumber ==
    /\ pc = "select_inv"
    /\ LET acc_texts == {CandidateText("ACCOUNT_NUMBER", j) :
                             j \in 1..Len(candidates["ACCOUNT_NUMBER"])}
           Ok(i) == Len(CandidateText("INVOICE_NUMBER", i)) <= 12
                    /\ CandidateText("INVOICE_NUMBER", i) \notin acc_texts
       IN  sel' = [sel EXCEPT !.inv_no =
                       ChosenText("INVOICE_NUMBER",
                                  FirstIndex(Len(candidates["INVOICE_NUMBER"]), Ok))]
    /\ pc' = "select_acc"
    /\ SelectionFrame

\* Account Number - must not be invoice number
SelectAccountNumber ==
    /\ pc = "select_acc"
    /\ LET Ok(i) == CandidateText("ACCOUNT_NUMBER", i) # sel.inv_no
                    /\ Len(CandidateText("ACCOUNT_NUMBER", i)) >= 9
                    /\ Len(CandidateText("ACCOUNT_NUMBER", i)) <= 18
       IN  sel' = [sel EXCEPT !.acc_no =
                       ChosenText("ACCOUNT_NUMBER",
                                  FirstIndex(Len(candidates["ACCOUNT_NUMBER"]), Ok))]
    /\ pc' = "select_date"
    /\ SelectionFrame

SelectInvoiceDate ==
    /\ pc = "select_date"
    /\ sel' = [sel EXCEPT !.inv_date = IF Len(candidates["DATE"]) > 0
                                       THEN normalize_date(CandidateText("DATE", 1)) ELSE <<>>]
    /\ pc' = "select_amount"
    /\ SelectionFrame

\* re.sub(r'[^\d.]', '', amt_candidate.text)
AmountRaw(i) == KeepChars(candidates["AMOUNT"][i].token.text, Digit \cup {"."})

\* amount = raw, with ".00" added when it has no dot
AmountText(raw) == IF Contains(raw, <<".">>) THEN raw ELSE raw \o <<".", "0", "0">>

\* the amount of candidate i, "" for i = 0
ChosenAmount(i) == IF i = 0 THEN <<>> ELSE AmountText(AmountRaw(i))

\* the first candidate whose float is at least 1; a ValueError skips the candidate
SelectAmount ==
    /\ pc = "select_amount"
    /\ LET Ok(i) == FloatOk(AmountRaw(i)) /\ ~FloatLess(AmountRaw(i), <<"1">>)
       IN  sel' = [sel EXCEPT !.amount = ChosenAmount(FirstIndex(Len(candidates["AMOUNT"]), Ok))]
    /\ pc' = "table_fallback"
    /\ SelectionFrame

\* if not amount and all_tables: amount, _ = extract_amount_from_tables(all_tables)
TableFallback ==
    /\ pc = "table_fallback"
    /\ sel' = [sel EXCEPT !.amount = IF Len(sel.amount) = 0 /\ Len(all_tables) > 0
                                     THEN extract_amount_from_tables(all_tables)[1] ELSE @]
    /\ pc' = "select_party"
    /\ SelectionFrame

SelectPartyName ==
    /\ pc = "select_party"
    /\ sel' = [sel EXCEPT !.party_name = extract_party_name(full_text)[1]]
    /\ pc' = "select_phone"
    /\ SelectionFrame

\* re.sub(r'[^\d]', '', tok.text.strip())
PhoneDigits(i) == KeepChars(candidates["PHONE_NUMBER"][i].token.text, Digit)

\* the digits of candidate i, "" for i = 0
ChosenPhone(i) == IF i > 0 THEN PhoneDigits(i) ELSE <<>>

\* Phone Number - must not be account number
SelectPhoneNumber ==
    /\ pc = "select_phone"
    /\ LET Ok(i) == Len(PhoneDigits(i)) = 10 /\ PhoneDigits(i) # sel.acc_no
       IN  sel' = [sel EXCEPT !.phone_no =
                       ChosenPhone(FirstIndex(Len(candidates["PHONE_NUMBER"]), Ok))]
    /\ pc' = "select_email"
    /\ SelectionFrame

SelectEmail ==
    /\ pc = "select_email"
    /\ sel' = [sel EXCEPT !.email = IF Len(candidates["EMAIL"]) > 0
                                    THEN CandidateText("EMAIL", 1) ELSE <<>>]
    /\ pc' = "inline"
    /\ SelectionFrame

\* inline_bank = parse_inline_bank_details(full_text); acc_no and ifsc are taken
\* from it where the scorer left them empty
InlineBankFallback ==
    /\ pc = "inline"
    /\ LET inline == parse_inline_bank_details(full_text)
       IN  /\ inline_bank' = inline
           /\ sel' = [sel EXCEPT
                        !.acc_no = IF Len(@) = 0 /\ Len(inline.account_no) > 0
                                   THEN inline.account_no ELSE @,
                        !.ifsc = IF Len(@) = 0 /\ Len(inline.ifsc) > 0 THEN inline.ifsc ELSE @]
    /\ pc' = "bank_name"
    /\ UNCHANGED <<pdf_file, full_text, all_tables, tokens, candidates, record, warnings,
                   result>>
    /\ UNCHANGED <<scoreVars, tableVars, validateVars, runVars, callVars>>

\* bank_name = derive_bank_name(ifsc), else the inline bank name if there is one
BankNameOr(derived, inline_name) ==
    IF Len(derived) = 0 /\ Len(inline_name) > 0 THEN inline_name ELSE derived

\* ResolveBankName with the inline bank name taken before the derived one
ResolveBankName_inline_first ==
    /\ pc = "bank_name"
    /\ sel' = [sel EXCEPT
                 !.pan_gst = IF Len(sel.pan) > 0 THEN sel.pan ELSE sel.gst,
                 !.bank_name = BankNameOr(inline_bank.bank_name, derive_bank_name(sel.ifsc)),
                 !.address = extract_address(full_text)]
    /\ pc' = "build"
    /\ SelectionFrame

\* pan_gst, bank_name and address
ResolveBankName ==
    /\ pc = "bank_name"
    /\ sel' = [sel EXCEPT
                 !.pan_gst = IF Len(sel.pan) > 0 THEN sel.pan ELSE sel.gst,
                 !.bank_name = BankNameOr(derive_bank_name(sel.ifsc), inline_bank.bank_name),
                 !.address = extract_address(full_text)]
    /\ pc' = "build"
    /\ SelectionFrame

BuildRecord ==
    /\ pc = "build"
    /\ record' = [Party_name |-> sel.party_name, Invoice_Date |-> sel.inv_date,
                  Invoice_No |-> sel.inv_no, Amount |-> sel.amount,
                  Phone_Number |-> sel.phone_no, Email |-> sel.email,
                  Address |-> sel.address, Bank_Name |-> sel.bank_name,
                  Bank_Account_No |-> sel.acc_no, IFSC_Code |-> sel.ifsc,
                  PAN_Number_GST |-> sel.pan_gst]
    /\ pc' = "validate"
    /\ UNCHANGED <<pdf_file, full_text, all_tables, tokens, candidates, sel, inline_bank,
                   warnings, result>>
    /\ UNCHANGED <<scoreVars, tableVars, validateVars, runVars, callVars>>

\* warnings = validate_extraction(record)
Validate ==
    /\ pc = "validate"
    /\ warnings' = validate_extraction(record)
    /\ pc' = "return"
    /\ UNCHANGED <<pdf_file, full_text, all_tables, tokens, candidates, sel, inline_bank,
                   record, result>>
    /\ UNCHANGED <<scoreVars, tableVars, validateVars, runVars, callVars>>

\* the first three candidates of a kind as (text, score) pairs
FirstThree(e) ==
    [i \in 1..Min(3, Len(candidates[e])) |->
        <<candidates[e][i].token.text, candidates[e][i].score>>]

\* the f-string of the debug trace, by the values it prints
DebugInfo ==
    [kind |-> "debug",
     page_count |-> Len(PagesOf(pdf_file.entries, <<>>)),
     full_text |-> full_text,
     tokens |-> Len(tokens),
     candidates |-> [e \in DetectedTypes |-> FirstThree(e)],
     record |-> record,
     warnings |-> warnings]

\* Return with a debug branch that empties the warnings
Return_debug_without_warnings ==
    /\ pc = "return"
    /\ result' = [returned |-> TRUE, has_record |-> TRUE, record |-> record,
                  warnings |-> IF debug_mode THEN <<>> ELSE warnings]
    /\ debug_info' = IF debug_mode THEN DebugInfo ELSE NoDebug
    /\ pc' = "done"
    /\ UNCHANGED <<pdf_file, full_text, all_tables, tokens, candidates, sel, inline_bank,
                   record, warnings>>
    /\ UNCHANGED <<opens, debug_mode, run, previous>>
    /\ UNCHANGED <<scoreVars, tableVars, validateVars, callVars>>

\* return record, warnings, debug_info, full_text
Return ==
    /\ pc = "return"
    /\ result' = [returned |-> TRUE, has_record |-> TRUE, record |-> record,
                  warnings |-> warnings]
    /\ debug_info' = IF debug_mode THEN DebugInfo ELSE NoDebug
    /\ pc' = "done"
    /\ UNCHANGED <<pdf_file, full_text, all_tables, tokens, candidates, sel, inline_bank,
                   record, warnings>>
    /\ UNCHANGED <<opens, debug_mode, run, previous>>
    /\ UNCHANGED <<scoreVars, tableVars, validateVars, callVars>>

Next ==
    \/ ExtractPages
    \/ ReturnNoText
    \/ Tokenize
    \/ DetectEntities
    \/ SelectIFSC
    \/ SelectPAN
    \/ SelectGST
    \/ SelectInvoiceNumber
    \/ SelectAccountNumber
    \/ SelectInvoiceDate
    \/ SelectAmount
    \/ TableFallback
    \/ SelectPartyName
    \/ SelectPhoneNumber
    \/ SelectEmail
    \/ InlineBankFallback
    \/ ResolveBankName
    \/ BuildRecord
    \/ Validate
    \/ Return

Spec == Init /\ [][Next]_vars

\* ------------------------------------------------------------------ repeated calls of extract_invoice_data

BlankLine == <<>>

W_Grouped12 == <<"1", "2", "3", "4", "-", "5", "6", "7", "8", "-", "9", "0", "1", "2">>

\* "Account No: 1234-5678-9012"
GroupedAccountLine == <<W_Account, W_NoColon, W_Grouped12>>

RunLineLibrary == {BlankLine, GroupedAccountLine, IfscLine}

RunDocuments ==
    [entries : SeqsUpTo(RunLineLibrary \cup {PageBreak}, MaxLines), tables : TableChoices]

\* the document of the call between the two calls on the same document
OtherDocument == [entries |-> <<AccountMobileLine, InvoiceLine>>, tables |-> <<ScenarioTable>>]

\* the first of three calls: on any document, with or without debug_mode, on a
\* file that opens or does not
InitRuns ==
    /\ pc = "start"
    /\ pdf_file \in RunDocuments
    /\ opens \in BOOLEAN
    /\ debug_mode \in BOOLEAN
    /\ debug_info = NoDebug /\ run = 1 /\ previous = NoCall
    /\ PipeIdle /\ ScoreIdle /\ TableIdle /\ ValidateIdle /\ CallIdle

\* error_trace = traceback.format_exc()
ErrorTrace == [kind |-> "traceback"]

\* pdfplumber.open raises: "except Exception as e: return None,
\* [f"Critical Error: {str(e)}"], error_trace, """
OpenFails ==
    /\ pc = "start"
    /\ ~CanOpen
    /\ result' = [returned |-> TRUE, has_record |-> FALSE, record |-> EmptyRecord,
                  warnings |-> <<Warning("Critical Error", <<>>)>>]
    /\ debug_info' = ErrorTrace
    /\ pc' = "done"
    /\ UNCHANGED <<pdf_file, full_text, all_tables, tokens, candidates, sel, inline_bank,
                   record, warnings>>
    /\ UNCHANGED <<opens, debug_mode, run, previous>>
    /\ UNCHANGED <<scoreVars, tableVars, validateVars, callVars>>

\* the next call of the loop over uploaded_files: the second call is on
\* OtherDocument, the third on the document of the first call again.  What the
\* call before left in full_text, tokens, candidates, ... is still there.
CallAgain ==
    /\ pc = "done"
    /\ run < 3
    /\ run' = run + 1
    /\ IF run = 1
       THEN /\ previous' = [pdf_file |-> pdf_file, debug_mode |-> debug_mode,
                            result |-> result, debug_info |-> debug_info]
            /\ pdf_file' = OtherDocument
            /\ debug_mode' = debug_mode
       ELSE /\ previous' = previous
            /\ pdf_file' = previous.pdf_file
            /\ debug_mode' \in BOOLEAN
    /\ result' = NoResult
    /\ debug_info' = NoDebug
    /\ pc' = "start"
    /\ UNCHANGED <<opens, full_text, all_tables, tokens, candidates, sel, inline_bank,
                   record, warnings>>
    /\ UNCHANGED <<scoreVars, tableVars, validateVars, callVars>>

NextRuns ==
    \/ Next
    \/ OpenFails
    \/ CallAgain

SpecRuns == InitRuns /\ [][NextRuns]_vars


\* ------------------------------------------------------------------ score_token_for_entity on its own
\* The scorer is given every token of every text of at most MaxScoreWords words of
\* ScoreWords, written on one line or broken into two lines.

W_Contact == <<"C", "o", "n", "t", "a", "c", "t">>

W_of == <<"o", "f">>

ScoreWords == {W_Phone10, W_Account, W_Mobile, W_Contact, W_of, W_Invoice}

MaxScoreWords == 3

\* words[1..b] is the first line and the rest the second
TwoLines(words, b) == <<Slice(words, 1, b), Slice(words, b + 1, Len(words))>>

ScoreTexts ==
    {TwoLines(words, b) : <<words, b>> \in
        {wb \in SeqsUpTo(ScoreWords, MaxScoreWords) \X (0..MaxScoreWords) : wb[2] <= Len(wb[1])}}

ScoreTokens == UNION {Range(tokenize(text)) : text \in ScoreTexts}

InitScore ==
    /\ pc = "score"
    /\ token \in ScoreTokens
    /\ scores = NoScores
    /\ pdf_file = [entries |-> <<>>, tables |-> <<>>]
    /\ PipeIdle /\ TableIdle /\ ValidateIdle /\ RunIdle /\ CallIdle

\* score_token_for_entity(token, entity_type) for every entity kind
ScoreToken ==
    /\ pc = "score"
    /\ scores' = [e \in EntityTypes |-> score_token_for_entity(token, e)]
    /\ pc' = "scored"
    /\ UNCHANGED <<token, pipeVars, tableVars, validateVars, runVars, callVars>>

NextScore == ScoreToken

SpecScore == InitScore /\ [][NextScore]_vars

\* ------------------------------------------------------------------ extract_amount_from_tables on its own
\* The function is given one table: a header row of two cells and at most MaxRows
\* data rows of a label and a value.

W_FiveFortyPlain == <<"5", "4", "0">>

HeaderCells == {W_Description, W_Total}

RowLabels == {W_Service, W_Tax, W_Total}

RowValues == {W_ThreeThousand, W_FiveForty, W_FiveFortyPlain}

MaxRows == 2

TableRows == {<<label, value>> : label \in RowLabels, value \in RowValues}

TableInputs ==
    {<<<<<<h, W_Amount>>>> \o rows>> : h \in HeaderCells, rows \in SeqsUpTo(TableRows, MaxRows)}

InitTables ==
    /\ pc = "tables"
    /\ tables_in \in TableInputs
    /\ table_out = <<<<>>, 0>>
    /\ pdf_file = [entries |-> <<>>, tables |-> <<>>]
    /\ PipeIdle /\ ScoreIdle /\ ValidateIdle /\ RunIdle /\ CallIdle

\* best_amount, score = extract_amount_from_tables(tables)
ExtractTableAmount ==
    /\ pc = "tables"
    /\ table_out' = extract_amount_from_tables(tables_in)
    /\ pc' = "tables_done"
    /\ UNCHANGED <<tables_in, pipeVars, scoreVars, validateVars, runVars, callVars>>

NextTables == ExtractTableAmount

SpecTables == InitTables /\ [][NextTables]_vars

\* ------------------------------------------------------------------ validate_extraction on its own
\* The validator is given every record whose fields are drawn from these values.

W_ACME == <<"A", "C", "M", "E">>

W_Date == <<"0", "1", "/", "0", "2", "/", "2", "0", "2", "4">>

W_INV1 == <<"I", "N", "V", "1">>

W_HalfRupee == <<"0", ".", "5", "0">>

W_ShortPhone == <<"9", "8", "7", "6", "5">>

W_PAN == <<"A", "B", "C", "P", "E", "1", "2", "3", "4", "F">>

\* a routing code that is too short
W_ShortIfsc == <<"B", "K", "I", "D", "4", "5">>

RecordInputs ==
    [Party_name : {<<>>, W_ACME},
     Invoice_Date : {<<>>, W_Date},
     Invoice_No : {<<>>, W_INV1, W_Phone10},
     Amount : {<<>>, W_ThreeThousand, W_HalfRupee},
     Phone_Number : {<<>>, W_Phone10, W_ShortPhone},
     Email : {<<>>},
     Address : {<<>>},
     Bank_Name : {<<>>},
     Bank_Account_No : {<<>>, W_Phone10, W_Acc15},
     IFSC_Code : {<<>>, W_BKID, W_ShortIfsc},
     PAN_Number_GST : {<<>>, W_PAN}]

InitValidate ==
    /\ pc = "validate_record"
    /\ record_in \in RecordInputs
    /\ warnings_out = <<>>
    /\ pdf_file = [entries |-> <<>>, tables |-> <<>>]
    /\ PipeIdle /\ ScoreIdle /\ TableIdle /\ RunIdle /\ CallIdle

\* warnings = validate_extraction(record)
ValidateRecord ==
    /\ pc = "validate_record"
    /\ warnings_out' = validate_extraction(record_in)
    /\ pc' = "validated"
    /\ UNCHANGED <<record_in, pipeVars, scoreVars, tableVars, runVars, callVars>>

NextValidate == ValidateRecord

SpecValidate == InitValidate /\ [][NextValidate]_vars


\* ------------------------------------------------------------------ the batch loop of main

MaxBatch == 3

FileNames == {"a.pdf", "b.pdf"}

\* what the call of extract_invoice_data on a file does: it returns a record,
\* it returns None with its warning, or an exception leaves the try block
CallOutcomes == {"record", "none", "raises"}

BatchRecords == {[EmptyRecord EXCEPT !.Party_name = W_ACME],
                 [EmptyRecord EXCEPT !.Invoice_No = W_INV1, !.Amount = W_FiveForty]}

\* an uploaded file: its name and what its call does; two files may have one name
UploadedFiles ==
    [name : FileNames, outcome : {"record"}, record : BatchRecords]
        \cup [name : FileNames, outcome : {"none", "raises"}, record : {EmptyRecord}]

\* all_data = [], failed_files = [] before "for idx, pdf_file in enumerate(uploaded_files)"
InitBatch ==
    /\ pc = "loop"
    /\ uploaded_files \in SeqsUpTo(UploadedFiles, MaxBatch)
    /\ idx = 0
    /\ all_data = <<>>
    /\ failed_files = <<>>
    /\ pdf_file = [entries |-> <<>>, tables |-> <<>>]
    /\ PipeIdle /\ ScoreIdle /\ TableIdle /\ ValidateIdle /\ RunIdle
    /\ BankIdle /\ DateIdle /\ PartyIdle

\* the frame of the loop
BatchFrame ==
    UNCHANGED <<uploaded_files, pipeVars, scoreVars, tableVars, validateVars, runVars,
                bankVars, dateVars, partyVars>>

\* ProcessFile without the except clause: the exception ends the loop
ProcessFile_without_except ==
    /\ pc = "loop"
    /\ idx < Len(uploaded_files)
    /\ LET f == uploaded_files[idx + 1] IN
        CASE f.outcome = "record" ->
                /\ all_data' = Append(all_data, [Source_File |-> f.name, record |-> f.record])
                /\ UNCHANGED failed_files
                /\ idx' = idx + 1
                /\ pc' = pc
          [] f.outcome = "none" ->
                /\ failed_files' = Append(failed_files, f.name)
                /\ UNCHANGED all_data
                /\ idx' = idx + 1
                /\ pc' = pc
          [] f.outcome = "raises" ->
                /\ UNCHANGED <<all_data, failed_files, idx>>
                /\ pc' = "raised"
    /\ BatchFrame

\* one iteration of the loop: try: record, ... = extract_invoice_data(pdf_file,
\* debug_mode); if record: record["Source File"] = pdf_file.name;
\* all_data.append(record) else: failed_files.append(pdf_file.name)
\* except Exception: failed_files.append(pdf_file.name)
ProcessFile ==
    /\ pc = "loop"
    /\ idx < Len(uploaded_files)
    /\ LET f == uploaded_files[idx + 1] IN
        CASE f.outcome = "record" ->
                /\ all_data' = Append(all_data, [Source_File |-> f.name, record |-> f.record])
                /\ UNCHANGED failed_files
          [] f.outcome = "none" ->
                /\ failed_files' = Append(failed_files, f.name)
                /\ UNCHANGED all_data
          [] f.outcome = "raises" ->
                /\ failed_files' = Append(failed_files, f.name)
                /\ UNCHANGED all_data
    /\ idx' = idx + 1
    /\ pc' = pc
    /\ BatchFrame

\* the loop is over: status_placeholder.empty(), progress_bar.empty()
LoopEnd ==
    /\ pc = "loop"
    /\ idx = Len(uploaded_files)
    /\ pc' = "processed"
    /\ UNCHANGED <<idx, all_data, failed_files>>
    /\ BatchFrame

NextBatch ==
    \/ ProcessFile
    \/ LoopEnd

\* the loop is sequential code: its next step is always taken
SpecBatch == InitBatch /\ [][NextBatch]_vars /\ WF_vars(NextBatch)

\* ------------------------------------------------------------------ derive_bank_name on its own

\* a prefix as it is, in lower case, and with only its first letter in upper case
Cased(w, how) ==
    CASE how = "upper" -> w
      [] how = "lower" -> lower(w)
      [] how = "title" -> [i \in 1..Len(w) |-> IF i = 1 THEN w[i] ELSE LowerChar(w[i])]

BranchDigits == {<<>>, <<"0", "0", "0", "4", "5", "0", "0">>}

W_ZZZZ == <<"Z", "Z", "Z", "Z", "1", "2", "3", "4", "5", "6", "7">>

W_zzAb == <<"z", "z", "A", "b", "0", "1">>

\* every prefix of the table in three letter cases, alone and with a branch part,
\* codes with a prefix that is not in the table, and codes of fewer than 4 characters
BankInputs ==
    {Cased(IFSC_PREFIX_MAP[i][1], how) \o d :
        i \in 1..Len(IFSC_PREFIX_MAP), how \in {"upper", "lower", "title"}, d \in BranchDigits}
    \cup {W_ZZZZ, W_zzAb, lower(W_ZZZZ)}
    \cup {<<>>, <<"B">>, <<"B", "K">>, <<"B", "K", "I">>, <<"h", "d", "f">>}

InitBank ==
    /\ pc = "derive"
    /\ ifsc_in \in BankInputs
    /\ bank_out = <<>>
    /\ pdf_file = [entries |-> <<>>, tables |-> <<>>]
    /\ PipeIdle /\ ScoreIdle /\ TableIdle /\ ValidateIdle /\ RunIdle
    /\ DateIdle /\ PartyIdle /\ BatchIdle

\* bank_name = derive_bank_name(ifsc)
DeriveBank ==
    /\ pc = "derive"
    /\ bank_out' = derive_bank_name(ifsc_in)
    /\ pc' = "derived"
    /\ UNCHANGED <<ifsc_in, pipeVars, scoreVars, tableVars, validateVars, runVars,
                   dateVars, partyVars, batchVars>>

NextBank == DeriveBank

SpecBank == InitBank /\ [][NextBank]_vars

\* ------------------------------------------------------------------ normalize_date on its own

DayTexts == {<<"1">>, <<"2", "8">>, <<"0", "5">>, <<"1", "2", "8">>}

MonthNames == {<<"N", "o", "v">>, <<"n", "o", "v", "e", "m", "b", "e", "r">>,
               <<"S", "E", "P", "T">>, <<"X", "y", "z">>, <<"N", "o">>}

MonthTexts == {<<"1", "1">>, <<"2">>, <<"1", "3">>}

YearTexts == {<<"2", "5">>, <<"5", "1">>, <<"2", "0", "2", "5">>, <<"1", "2", "3">>,
              <<"2", "0", "2", "5", "5">>}

DateSeps == {<<"-">>, <<"/">>, <<".">>}

\* day, month name, year: "28-Nov-25", "1 november 2025", "05. SEPT .123"
DayNameYear ==
    {d \o g \o m \o h \o y :
        d \in DayTexts, g \in DateSeps \cup {<<" ">>}, m \in MonthNames,
        h \in {<<"-">>, <<" ", ".">>}, y \in YearTexts}

\* month name, day, year: "Nov 28, 2025", "november 1 2025"
NameDayYear ==
    {m \o <<" ">> \o d \o c \o <<" ">> \o y :
        m \in MonthNames, d \in DayTexts, c \in {<<>>, <<",">>}, y \in YearTexts}

\* day, month, year in digits: "28/11/2025", "1.2.25"
NumericDayFirst ==
    {d \o g \o m \o g \o y : d \in DayTexts, g \in DateSeps, m \in MonthTexts, y \in YearTexts}

\* year, month, day: "2025-11-28", "2025/2/1"
IsoDates ==
    {y \o g \o m \o g \o d :
        y \in {<<"2", "0", "2", "5">>, <<"1", "9", "9", "9">>}, g \in DateSeps,
        m \in MonthTexts, d \in DayTexts}

W_Iso == <<"2", "0", "2", "5", "-", "1", "1", "-", "2", "8">>

W_NovShort == <<"2", "8", "-", "N", "o", "v", "-", "2", "5">>

W_Normal == <<"2", "8", "-", "1", "1", "-", "2", "0", "2", "5">>

\* dates with the two-digit years at the ends of the two centuries: "28-Nov-50",
\* "1-2-99"
PivotDates ==
    {d \o <<"-">> \o m \o <<"-">> \o y :
        d \in DayTexts, m \in MonthNames \cup MonthTexts,
        y \in {<<"0", "0">>, <<"5", "0">>, <<"9", "9">>}}

DateInputs ==
    DayNameYear \cup NameDayYear \cup NumericDayFirst \cup IsoDates \cup PivotDates
        \cup {<<>>, <<" ">> \o W_Iso \o <<" ">>, <<"d", "u", "e">>, W_INV1234}

InitDate ==
    /\ pc = "normalize"
    /\ date_in \in DateInputs
    /\ date_out = <<<<>>, <<>>>>
    /\ pdf_file = [entries |-> <<>>, tables |-> <<>>]
    /\ PipeIdle /\ ScoreIdle /\ TableIdle /\ ValidateIdle /\ RunIdle
    /\ BankIdle /\ PartyIdle /\ BatchIdle

\* once = normalize_date(date_str); twice = normalize_date(once)
NormalizeDate ==
    /\ pc = "normalize"
    /\ date_out' = <<normalize_date(date_in), normalize_date(normalize_date(date_in))>>
    /\ pc' = "normalized"
    /\ UNCHANGED <<date_in, pipeVars, scoreVars, tableVars, validateVars, runVars,
                   bankVars, partyVars, batchVars>>

NextDate == NormalizeDate

SpecDate == InitDate /\ [][NextDate]_vars

\* ------------------------------------------------------------------ extract_party_name on its own

W_Authorised == <<"A", "u", "t", "h", "o", "r", "i", "s", "e", "d">>

W_Signatory == <<"S", "i", "g", "n", "a", "t", "o", "r", "y">>

W_HDFC == <<"H", "D", "F", "C">>

W_Bank == <<"B", "a", "n", "k">>

W_INVOICE == <<"I", "N", "V", "O", "I", "C", "E">>

W_BeneficiaryColon == <<"B", "e", "n", "e", "f", "i", "c", "i", "a", "r", "y", ":">>

W_Acme == <<"A", "c", "m", "e">>

W_Traders == <<"T", "r", "a", "d", "e", "r", "s">>

\* the lines of a text: a signature label, a bank name alone, after a beneficiary
\* label and as a company, an INVOICE heading, a company name in two letter
\* cases and a beneficiary
PartyLines ==
    {<<W_Authorised, W_Signatory>>, <<W_HDFC, W_Bank>>, <<W_BeneficiaryColon, W_HDFC, W_Bank>>,
     <<upper(W_HDFC), upper(W_Bank), upper(W_Traders)>>, <<W_INVOICE>>, <<W_Acme, W_Traders>>,
     <<upper(W_Acme), upper(W_Traders)>>, <<W_BeneficiaryColon, W_Acme>>}

PartyTexts == SeqsUpTo(PartyLines, MaxLines)

InitParty ==
    /\ pc = "name"
    /\ lines_in \in PartyTexts
    /\ party_out = <<<<>>, 0>>
    /\ pdf_file = [entries |-> <<>>, tables |-> <<>>]
    /\ PipeIdle /\ ScoreIdle /\ TableIdle /\ ValidateIdle /\ RunIdle
    /\ BankIdle /\ DateIdle /\ BatchIdle

\* party_name, _ = extract_party_name(full_text, tokens)
ExtractParty ==
    /\ pc = "name"
    /\ party_out' = extract_party_name(lines_in)
    /\ pc' = "named"
    /\ UNCHANGED <<lines_in, pipeVars, scoreVars, tableVars, validateVars, runVars,
                   bankVars, dateVars, batchVars>>

NextParty == ExtractParty

SpecParty == InitParty /\ [][NextParty]_vars

\* ------------------------------------------------------------------ tokenize on its own

MaxGluedWords == 2

W_PhaseII == <<"P", "H", "A", "S", "E", "-", "I", "I">>

W_WellKnown == <<"w", "e", "l", "l", "-", "k", "n", "o", "w", "n">>

W_CodeGlued == <<"C", "o", "d", "e", ":", "B", "K", "I", "D", "0", "0", "0", "4", "5", "0", "0">>

W_Code == <<"C", "o", "d", "e">>

\* the words of a line: a date with a month name, a phase marker, a hyphenated
\* term, a label glued to its value with a colon and with a dash, an amount, a
\* plain word and a number
GluedWords ==
    {W_NovShort, W_PhaseII, W_WellKnown, W_CodeGlued, W_Code \o <<"-">> \o W_BKID,
     W_ThreeThousand, W_Total, W_Acc9}

\* the texts of one line of 1 to MaxGluedWords words
TokenTexts == {<<line>> : line \in SeqsUpTo(GluedWords, MaxGluedWords) \ {<<>>}}

\* tokenize is called on a text
InitTokens ==
    /\ pc = "check_text"
    /\ full_text \in TokenTexts
    /\ pdf_file = [entries |-> <<>>, tables |-> <<>>]
    /\ all_tables = <<>> /\ tokens = <<>>
    /\ candidates = NoCandidates /\ sel = NoSelection /\ inline_bank = NoInlineBank
    /\ record = EmptyRecord /\ warnings = <<>> /\ result = NoResult
    /\ ScoreIdle /\ TableIdle /\ ValidateIdle /\ RunIdle /\ CallIdle

NextTokens == Tokenize

SpecTokens == InitTokens /\ [][NextTokens]_vars

\* ------------------------------------------------------------------ find_entity on its own

\* "9876543210" alone on its line
NumberLine == <<W_Phone10>>

\* the lines of the texts find_entity is applied to: a number after "Mobile",
\* alone and after "Account No:", five grouped numbers, a routing code, an
\* invoice number, an amount
FindLines ==
    {MobileLine, NumberLine, AccountNoLine, GroupedLine, IfscLine, InvoiceLine, GrandTotalLine}

FindTexts == SeqsUpTo(FindLines, MaxLines)

\* tokenize and find_entity are called on a text
InitFind ==
    /\ pc = "check_text"
    /\ full_text \in FindTexts
    /\ pdf_file = [entries |-> <<>>, tables |-> <<>>]
    /\ all_tables = <<>> /\ tokens = <<>>
    /\ candidates = NoCandidates /\ sel = NoSelection /\ inline_bank = NoInlineBank
    /\ record = EmptyRecord /\ warnings = <<>> /\ result = NoResult
    /\ ScoreIdle /\ TableIdle /\ ValidateIdle /\ RunIdle /\ CallIdle

NextFind ==
    \/ Tokenize
    \/ DetectEntities

SpecFind == InitFind /\ [][NextFind]_vars

\* ------------------------------------------------------------------ extract_invoice_data on bank details

W_ifscLower == <<"i", "f", "s", "c">>

W_codeColonLower == <<"c", "o", "d", "e", ":">>

W_NameColon == <<"N", "a", "m", "e", ":">>

W_IfscColon == <<"I", "F", "S", "C", ":">>

W_UnknownIfsc == <<"Z", "Z", "Z", "Z", "0", "1", "2", "3", "4", "5", "6">>

\* "IFSC Code: BKID0004500 Mobile": the word Mobile takes the code from the scorer
IfscMobileLine == <<W_IFSC, W_CodeColon, W_BKID, W_Mobile>>

\* "ifsc code: bkid0004500"
LowerIfscLine == <<W_ifscLower, W_codeColonLower, lower(W_BKID)>>

\* "Bank Name: HDFC Bank"
BankNameLine == <<W_Bank, W_NameColon, W_HDFC, W_Bank>>

\* "IFSC: ZZZZ0123456 Mobile": a prefix IFSC_PREFIX_MAP does not have
UnknownIfscLine == <<W_IfscColon, W_UnknownIfsc, W_Mobile>>

BankLines == {IfscLine, IfscMobileLine, LowerIfscLine, BankNameLine, UnknownIfscLine, AccountLine}

BankDocuments == [entries : SeqsUpTo(BankLines \cup {PageBreak}, MaxLines), tables : TableChoices]

InitBankDetails ==
    /\ pc = "start"
    /\ pdf_file \in BankDocuments
    /\ PipeIdle /\ ScoreIdle /\ TableIdle /\ ValidateIdle /\ RunIdle /\ CallIdle

SpecBankDetails == InitBankDetails /\ [][Next]_vars

\* ------------------------------------------------------------------ properties of the scorer

\* C1: for every entity kind of ENTITY_DEFS and every token, if the stripped text of
\* the token matches none of the kind's format patterns, score_token_for_entity
\* returns exactly 0, whatever the neighbouring tokens and the line contain.
C1_HardGate ==
    pc = "scored" =>
        \A e \in EntityTypes : ~FormatMatched(e, token.text) => scores[e] = 0

\* the word "Mobile" with the phone keyword "Mobile" next to it: it matches no phone
\* format, and its score for PHONE_NUMBER is 0 in spite of the keyword
C1_Witness ==
    /\ pc = "scored"
    /\ token.text = W_Mobile
    /\ AdjacentBefore(token) = lower(W_Mobile)
    /\ ~FormatMatched("PHONE_NUMBER", token.text)
    /\ scores["PHONE_NUMBER"] = 0

\* a 10-digit text beginning with 6-9
IsMobileNumber(text) == FullMatch(<<C({"6", "7", "8", "9"}, 1, 1), C(Digit, 9, 9)>>, text)

\* the nearest neighbour of the token, before or after it, is the word w
NextTo(t, w) == AdjacentBefore(t) = lower(w) \/ AdjacentAfter(t) = lower(w)

\* the context keywords of an entity kind in lower case
KeywordsOf(entity_type) ==
    {lower(ENTITY_DEFS[entity_type].context_keywords[i][1]) :
        i \in 1..Len(ENTITY_DEFS[entity_type].context_keywords)}

\* C4 as stated: a 10-digit token beginning with 6-9 whose nearest neighbour is
\* "account" and whose line carries no phone keyword scores 0 for PHONE_NUMBER and
\* more than 0 for ACCOUNT_NUMBER; next to "mobile" or "contact", with no account
\* keyword on its line, it scores 0 for ACCOUNT_NUMBER and more than 0 for
\* PHONE_NUMBER.
C4_AsStated ==
    (pc = "scored" /\ IsMobileNumber(token.text)) =>
        /\ (NextTo(token, W_Account)
            /\ LineWords(token.line) \cap KeywordsOf("PHONE_NUMBER") = {})
           => (scores["PHONE_NUMBER"] = 0 /\ scores["ACCOUNT_NUMBER"] > 0)
        /\ ((NextTo(token, W_Mobile) \/ NextTo(token, W_Contact))
            /\ LineWords(token.line) \cap KeywordsOf("ACCOUNT_NUMBER") = {})
           => (scores["ACCOUNT_NUMBER"] = 0 /\ scores["PHONE_NUMBER"] > 0)

\* C4, amended: a 10-digit token beginning with 6-9 whose nearest neighbour is
\* "account" and which has no word of NEGATIVE_CONTEXT on its line or among its
\* neighbouring tokens scores 0 for PHONE_NUMBER and more than 0 for
\* ACCOUNT_NUMBER; next to "mobile" or "contact", with no account keyword on its
\* line or among its neighbouring tokens, it scores 0 for ACCOUNT_NUMBER and more
\* than 0 for PHONE_NUMBER.
C4_NegativeContext ==
    (pc = "scored" /\ IsMobileNumber(token.text)) =>
        /\ (NextTo(token, W_Account) /\ AllContext(token) \cap NEGATIVE_CONTEXT = {})
           => (scores["PHONE_NUMBER"] = 0 /\ scores["ACCOUNT_NUMBER"] > 0)
        /\ ((NextTo(token, W_Mobile) \/ NextTo(token, W_Contact))
            /\ AllContext(token) \cap KeywordsOf("ACCOUNT_NUMBER") = {})
           => (scores["ACCOUNT_NUMBER"] = 0 /\ scores["PHONE_NUMBER"] > 0)

\* the number next to "Account" with nothing else around it: an account number,
\* and no phone number
C4_Witness ==
    /\ pc = "scored"
    /\ IsMobileNumber(token.text)
    /\ NextTo(token, W_Account)
    /\ AllContext(token) \cap NEGATIVE_CONTEXT = {}
    /\ scores["PHONE_NUMBER"] = 0
    /\ scores["ACCOUNT_NUMBER"] > 0


\* ------------------------------------------------------------------ properties of the table fallback

\* the table of scenario C: one table, a header row with the cell "Amount", then
\* the rows ["Service", "3,000.00"] and ["Tax", "540.00"]
IsScenarioC(tables) ==
    /\ Len(tables) = 1
    /\ Len(tables[1]) = 3
    /\ \E c \in 1..Len(tables[1][1]) : tables[1][1][c] = W_Amount
    /\ tables[1][2] = <<W_Service, W_ThreeThousand>>
    /\ tables[1][3] = <<W_Tax, W_FiveForty>>

C10_CollisionWarning ==
    (/\ pc = "validated"
     /\ Len(record_in.Bank_Account_No) > 0
     /\ record_in.Bank_Account_No = record_in.Phone_Number) =>
        WarnsAbout(warnings_out, "Bank_Account_No", "Phone_Number")


\* C11: when the routing code of a record fails its format check, validate_extraction
\* emits a warning about the malformed routing code: its list has a warning that
\* the same record with a well-formed routing code does not get.
C11_MalformedIfscWarning ==
    (/\ pc = "validated"
     /\ Len(record_in.IFSC_Code) > 0
     /\ ~FullMatch(IfscShape, upper(record_in.IFSC_Code))) =>
        \E i \in 1..Len(warnings_out) :
            warnings_out[i] \notin Range(validate_extraction([record_in EXCEPT !.IFSC_Code = W_BKID]))

\* the list of validate_extraction has a warning with this message
Warned(msg) == \E i \in 1..Len(warnings_out) : warnings_out[i].msg = msg

\* the not-found and pairing warnings, in the order validate_extraction emits them
PairingOrder ==
    <<"CRITICAL: Party name not detected",
      "CRITICAL: Invoice date not detected",
      "CRITICAL: Amount not detected",
      "Amount found but no Bank Account Number detected",
      "Account Number found but no IFSC Code detected">>

\* the positions of a message in the list
PositionsOf(msg) == {i \in 1..Len(warnings_out) : warnings_out[i].msg = msg}

\* C12: for every record, the list of validate_extraction has the not-found warning
\* of Party name, Invoice Date and Amount exactly when the field is empty, "Amount
\* found but no Bank Account Number detected" exactly when Amount is non-empty and
\* Bank Account No is empty, and "Account Number found but no IFSC Code detected"
\* exactly when Bank Account No is non-empty and IFSC Code is empty; each at most
\* once, and in the same relative order for every record.
C12_MissingAndPairing ==
    pc = "validated" =>
        /\ Warned(PairingOrder[1]) <=> Len(record_in.Party_name) = 0
        /\ Warned(PairingOrder[2]) <=> Len(record_in.Invoice_Date) = 0
        /\ Warned(PairingOrder[3]) <=> Len(record_in.Amount) = 0
        /\ Warned(PairingOrder[4]) <=>
               (Len(record_in.Amount) > 0 /\ Len(record_in.Bank_Account_No) = 0)
        /\ Warned(PairingOrder[5]) <=>
               (Len(record_in.Bank_Account_No) > 0 /\ Len(record_in.IFSC_Code) = 0)
        /\ \A m \in 1..Len(PairingOrder) : Cardinality(PositionsOf(PairingOrder[m])) <= 1
        /\ \A m, n \in 1..Len(PairingOrder) :
               m < n => \A i \in PositionsOf(PairingOrder[m]) :
                            \A j \in PositionsOf(PairingOrder[n]) : i < j

\* a record without party name and date, with an account number and no routing
\* code: three of the warnings, in their order
C12_Witness ==
    /\ pc = "validated"
    /\ Len(record_in.Party_name) = 0
    /\ Len(record_in.Invoice_Date) = 0
    /\ Len(record_in.Amount) > 0
    /\ Len(record_in.Bank_Account_No) > 0
    /\ Len(record_in.IFSC_Code) = 0
    /\ Len(warnings_out) >= 3
    /\ warnings_out[1].msg = PairingOrder[1]
    /\ warnings_out[2].msg = PairingOrder[2]
    /\ warnings_out[3].msg = PairingOrder[5]

\* ------------------------------------------------------------------ properties of extract_invoice_data

\* extract_invoice_data has returned a record
Returned == pc = "done" /\ result.returned /\ result.has_record

\* the line is a line of the document
HasLine(line) == \E i \in 1..Len(pdf_file.entries) : pdf_file.entries[i] = line

\* the text occurs in some line of the document other than `line`
OccursOutside(text, line) ==
    \E i \in 1..Len(pdf_file.entries) :
        /\ pdf_file.entries[i] # line
        /\ \E w \in 1..Len(pdf_file.entries[i]) : Contains(pdf_file.entries[i][w], text)

\* some account candidate of the scorer has another text than the invoice number
AlternativeAccountCandidate ==
    \E i \in 1..Len(candidates["ACCOUNT_NUMBER"]) :
        CandidateText("ACCOUNT_NUMBER", i) # result.record.Invoice_No

\* C2: in every record extract_invoice_data returns, a non-empty Invoice No. is not
\* equal to Bank Account No, unless no alternative account candidate exists and
\* the warnings then note the collision.
C2_InvoiceAccountExclusive ==
    (/\ Returned
     /\ Len(result.record.Invoice_No) > 0
     /\ result.record.Invoice_No = result.record.Bank_Account_No) =>
        /\ ~AlternativeAccountCandidate
        /\ WarnsAbout(result.warnings, "Invoice_No", "Bank_Account_No")

\* C3: in every record extract_invoice_data returns, a non-empty Phone Number is
\* not equal to Bank Account No.
C3_PhoneAccountExclusive ==
    (Returned /\ Len(result.record.Phone_Number) > 0) =>
        result.record.Phone_Number # result.record.Bank_Account_No

\* C5: for a document with the line "Total RUPEE 10,000/-" and no tables the
\* returned record has Amount = "10000".
C5_ScenarioB ==
    (pc = "done" /\ HasLine(TotalLine) /\ Len(pdf_file.tables) = 0) =>
        /\ result.has_record
        /\ result.record.Amount = <<"1", "0", "0", "0", "0">>

\* C7 as stated: for any document in which the number 919876543210 occurs only on
\* the line "Phone: 919876543210", Bank Account No is neither "919876543210" nor
\* "9876543210".
C7_AsStated ==
    (pc = "done" /\ HasLine(PhoneLine) /\ ~OccursOutside(W_Phone91, PhoneLine)) =>
        result.record.Bank_Account_No \notin {W_Phone91, W_Phone10}

\* C7, amended: for any document in which neither 919876543210 nor 9876543210
\* occurs on a line other than "Phone: 919876543210", Bank Account No is neither
\* "919876543210" nor "9876543210".
C7_PhoneIsNoAccount ==
    (/\ pc = "done"
     /\ HasLine(PhoneLine)
     /\ ~OccursOutside(W_Phone91, PhoneLine)
     /\ ~OccursOutside(W_Phone10, PhoneLine)) =>
        result.record.Bank_Account_No \notin {W_Phone91, W_Phone10}

\* the phone line and a line with an account number: the number after "Phone:" is
\* a phone candidate and no account candidate, and the record has the account
\* number of the other line
C7_Witness ==
    /\ Returned
    /\ pdf_file.entries = <<PhoneLine, BankAcLine>>
    /\ \E i \in 1..Len(candidates["PHONE_NUMBER"]) :
           candidates["PHONE_NUMBER"][i].token.text = W_Phone91
    /\ \A i \in 1..Len(candidates["ACCOUNT_NUMBER"]) :
           candidates["ACCOUNT_NUMBER"][i].token.text # W_Phone91
    /\ result.record.Bank_Account_No = W_Acc9

\* a word of some line other than `line` has a phone number format
PhoneLikeOutside(line) ==
    \E i \in 1..Len(pdf_file.entries) :
        /\ pdf_file.entries[i] # line
        /\ \E w \in 1..Len(pdf_file.entries[i]) :
               FormatMatched("PHONE_NUMBER", pdf_file.entries[i][w])

\* C8: for a document whose only phone-like number is on the line
\* "Phone: 919876543210" the country code 91 is removed and the returned record has
\* Phone Number = "9876543210".
C8_ScenarioD ==
    (pc = "done" /\ HasLine(PhoneLine) /\ ~PhoneLikeOutside(PhoneLine)) =>
        /\ result.has_record
        /\ result.record.Phone_Number = W_Phone10

\* the lines of the document, page breaks left out
TextLines == SelectSeq(pdf_file.entries, LAMBDA entry : entry # PageBreak)

\* C9: for a document whose text consists of the lines
\* "Account no.- 450010110017123" and "IFSC Code: BKID0004500" the returned record
\* has Bank Account No = "450010110017123", IFSC Code = "BKID0004500" and
\* Bank Name = "Bank of India".
C9_ScenarioA ==
    (pc = "done" /\ TextLines = <<AccountLine, IfscLine>>) =>
        /\ result.has_record
        /\ result.record.Bank_Account_No = W_Acc15
        /\ result.record.IFSC_Code = W_BKID
        /\ result.record.Bank_Name = <<"B", "a", "n", "k", " ", "o", "f", " ",
                                       "I", "n", "d", "i", "a">>

C9_Witness ==
    /\ Returned
    /\ pdf_file.entries = <<AccountLine, IfscLine>>
    /\ result.record.Bank_Account_No = W_Acc15
    /\ result.record.IFSC_Code = W_BKID
    /\ Len(result.record.Bank_Name) > 0

\* ------------------------------------------------------------------ properties of repeated calls

\* some page of the document has a line with a word
SomePageHasText == \E i \in 1..Len(pdf_file.entries) :
    pdf_file.entries[i] # PageBreak /\ Len(pdf_file.entries[i]) > 0

\* C13: every return of extract_invoice_data without a record carries exactly one
\* warning, and a record is returned only when some page yielded non-blank text.
C13_FailureSignalling ==
    pc = "done" =>
        /\ result.returned
        /\ ~result.has_record => Len(result.warnings) = 1
        /\ result.has_record => SomePageHasText

\* C15: the call on a document after a call on another document returns the record
\* and the warning list that the first call on the document returned, and with the
\* same debug_mode the same debug trace.
C15_Determinism ==
    (pc = "done" /\ run = 3 /\ debug_mode = previous.debug_mode) =>
        /\ result = previous.result
        /\ debug_info = previous.debug_info

\* the third call has returned the record with the account number and the bank
\* name of its document, after the call on the other document
C15_Witness ==
    /\ pc = "done" /\ run = 3
    /\ debug_mode /\ previous.debug_mode
    /\ pdf_file.entries = <<GroupedAccountLine, IfscLine>>
    /\ result.has_record
    /\ result.record.Bank_Account_No = W_Grouped12
    /\ result.record.IFSC_Code = W_BKID
    /\ Len(result.warnings) > 0

\* C16: for the same document, extract_invoice_data with debug_mode set and with
\* debug_mode unset returns the same record and the same warning list.
C16_DebugNonInterference ==
    (pc = "done" /\ run = 3 /\ debug_mode # previous.debug_mode) =>
        /\ result.has_record = previous.result.has_record
        /\ result.record = previous.result.record
        /\ result.warnings = previous.result.warnings

\* a call without and a call with debug_mode on a document with text: the
\* traces differ, the second is the dump
C16_Witness ==
    /\ pc = "done" /\ run = 3
    /\ debug_mode /\ ~previous.debug_mode
    /\ result.has_record
    /\ Len(result.warnings) > 0
    /\ debug_info = DebugInfo
    /\ previous.debug_info = NoDebug

\* C19: in every record extract_invoice_data returns, a non-empty Bank Account No
\* has no space, dash or dot.
C19_AccountWithoutSeparators ==
    Returned =>
        \A i \in 1..Len(result.record.Bank_Account_No) :
            result.record.Bank_Account_No[i] \notin {" ", "-", "."}

\* ------------------------------------------------------------------ properties of the batch loop

\* the files of a batch whose call returns a record, and the others
Succeeds(f) == f.outcome = "record"

Fails(f) == f.outcome # "record"

\* the batch without its i-th file
WithoutFile(files, i) == [k \in 1..(Len(files) - 1) |-> IF k < i THEN files[k] ELSE files[k + 1]]

\* the records of the files that succeed, in the order of the batch
RecordsOf(files) ==
    LET ok == SelectSeq(files, Succeeds)
    IN [k \in 1..Len(ok) |-> [Source_File |-> ok[k].name, record |-> ok[k].record]]

NamesOfFailed(files) ==
    LET ko == SelectSeq(files, Fails)
    IN [k \in 1..Len(ko) |-> ko[k].name]

BatchSettled ==
    /\ idx = Len(uploaded_files)
    /\ Len(all_data) + Len(failed_files) = Len(uploaded_files)
    /\ all_data = RecordsOf(uploaded_files)
    /\ failed_files = NamesOfFailed(uploaded_files)
    /\ \A i \in 1..Len(uploaded_files) :
          Fails(uploaded_files[i]) => all_data = RecordsOf(WithoutFile(uploaded_files, i))

\* C14: the loop over the uploaded files always comes to its end, whatever the
\* calls do; then every file has its entry in exactly one of all_data and
\* failed_files, and all_data holds the records of the files that succeed, as
\* for the batch without a failing file.
C14_BatchIsolation ==
    /\ <>(pc = "processed")
    /\ [](pc = "processed" => BatchSettled)

\* a batch of three is processed: the second call raises, the first and the
\* third file have their records in all_data
C14_Witness ==
    /\ pc = "processed"
    /\ Len(uploaded_files) = 3
    /\ uploaded_files[2].outcome = "raises"
    /\ failed_files = <<uploaded_files[2].name>>
    /\ Len(all_data) = 2
    /\ all_data[2].record = uploaded_files[3].record

\* ------------------------------------------------------------------ properties of the bank name lookup

W_BankOfIndia == <<"B", "a", "n", "k", " ", "o", "f", " ", "I", "n", "d", "i", "a">>

\* the first four characters of the code, upper-cased
FirstFourUpper == upper(Slice(ifsc_in, 1, 4))

MappedPrefixes == {IFSC_PREFIX_MAP[i][1] : i \in 1..Len(IFSC_PREFIX_MAP)}

\* C17: derive_bank_name("BKID0004500") is "Bank of India"; a code of 4 or more
\* characters whose upper-cased first four are no key of IFSC_PREFIX_MAP gives
\* those four upper-cased characters ("ZZZZ1234567" gives "ZZZZ"); a mapped prefix
\* in any letter case gives the mapped name; a code of fewer than 4 characters
\* gives the empty string.
C17_BankResolution ==
    pc = "derived" =>
        /\ ifsc_in = W_BKID => bank_out = W_BankOfIndia
        /\ ifsc_in = W_ZZZZ => bank_out = <<"Z", "Z", "Z", "Z">>
        /\ Len(ifsc_in) < 4 => bank_out = <<>>
        /\ (Len(ifsc_in) >= 4 /\ FirstFourUpper \notin MappedPrefixes) =>
                bank_out = FirstFourUpper
        /\ \A i \in 1..Len(IFSC_PREFIX_MAP) :
                (Len(ifsc_in) >= 4 /\ FirstFourUpper = IFSC_PREFIX_MAP[i][1]) =>
                    bank_out = IFSC_PREFIX_MAP[i][2]

\* the lookup has been applied to "bkid0004500", in lower case, and gave the name
C17_Witness ==
    /\ pc = "derived"
    /\ ifsc_in = lower(W_BKID)
    /\ bank_out = W_BankOfIndia

\* ------------------------------------------------------------------ properties of the date normalizer

\* C18: normalize_date(normalize_date(d)) = normalize_date(d) for every input d,
\* those of the four layouts normalize_date recognizes among them;
\* normalize_date("2025-11-28") and normalize_date("28-Nov-25") are "28-11-2025".
C18_DateIdempotence ==
    pc = "normalized" =>
        /\ date_out[2] = date_out[1]
        /\ date_in = W_Iso => date_out[1] = W_Normal
        /\ date_in = W_NovShort => date_out[1] = W_Normal

\* a date with a month name and a two-digit year has been rewritten, and
\* rewriting the result changes nothing
C18_Witness ==
    /\ pc = "normalized"
    /\ date_in = W_NovShort
    /\ date_out[1] # date_in
    /\ date_out = <<W_Normal, W_Normal>>

\* ------------------------------------------------------------------ properties of the party name

\* the bank names the program knows: the names of IFSC_PREFIX_MAP
KnownBankNames == {IFSC_PREFIX_MAP[i][2] : i \in 1..Len(IFSC_PREFIX_MAP)}

StructuralLabels == {LineText(<<W_Authorised, W_Signatory>>)}

\* C20: the name extract_party_name returns is never a bank name such as
\* "HDFC Bank" nor a structural label such as "Authorised Signatory".
C20_PartyNameBlocklist ==
    pc = "named" => party_out[1] \notin KnownBankNames \cup StructuralLabels

\* ------------------------------------------------------------------ properties of the tokenizer

\* a day-month-year date with a month name: 28-Nov-25
DayMonthNameYear ==
    <<C(Digit, 1, 2), C({"-"}, 1, 1), C(Letter, 3, 9), C({"-"}, 1, 1), C(Digit, 2, 4)>>

\* PHASE-<roman numeral>
PhaseMarker == L(<<"P", "H", "A", "S", "E", "-">>) \o <<C({"I", "V", "X", "L", "C", "D", "M"}, 1, Inf)>>

\* two words joined by a hyphen
HyphenatedTerm == <<C(Letter, 1, Inf), C({"-"}, 1, 1), C(Letter, 1, Inf)>>

\* the field labels a value is glued to
FieldLabels == {lower(W_Code), lower(W_IFSC), lower(W_Account), <<"n", "o">>}

\* the part of a hyphenated term before its hyphen
LeftSide(w) == Slice(w, 1, SetMin({i \in 1..Len(w) : w[i] = "-"}) - 1)

ProtectedShape(w) ==
    \/ FullMatch(DayMonthNameYear, w)
    \/ FullMatch(PhaseMarker, w)
    \/ FullMatch(HyphenatedTerm, w) /\ lower(LeftSide(w)) \notin FieldLabels

TextsOfTokens == [t \in 1..Len(tokens) |-> tokens[t].text]

\* C21: a word of a protected shape (a date such as "28-Nov-25", a PHASE marker,
\* a hyphenated term whose left side is no field label) is one token of the
\* line, and "Code:BKID0004500" gives the tokens "Code" and "BKID0004500".
C21_ProtectedShapes ==
    pc = "detect" =>
        \A k \in 1..Len(full_text[1]) :
            /\ ProtectedShape(full_text[1][k]) => full_text[1][k] \in Range(TextsOfTokens)
            /\ full_text[1][k] = W_CodeGlued =>
                    \E t \in 1..(Len(tokens) - 1) :
                        tokens[t].text = W_Code /\ tokens[t + 1].text = W_BKID

\* ------------------------------------------------------------------ properties of the year expansion

\* a date with a month name and a year of two digits, and one all in digits
TwoDigitYearShapes ==
    {<<C(Digit, 1, 2), C(DateSepOrSpace, 1, Inf), C(Letter, 3, 9), C(DateSepOrSpace, 1, Inf),
       C(Digit, 2, 2)>>,
     <<C(Digit, 1, 2), C(DateSep, 1, 1), C(Digit, 1, 2), C(DateSep, 1, 1), C(Digit, 2, 2)>>}

HasTwoDigitYear(d) == \E shape \in TwoDigitYearShapes : FullMatch(shape, d)

\* DD-MM-YYYY
Canonical == <<C(Digit, 2, 2), C({"-"}, 1, 1), C(Digit, 2, 2), C({"-"}, 1, 1), C(Digit, 4, 4)>>

\* the last n characters of a text
LastChars(d, n) == Slice(d, Len(d) - n + 1, Len(d))

\* the value of a year of two digits
YearValue(yy) == 10 * DigitVal(yy[1]) + DigitVal(yy[2])

\* C22 as stated: a recognized date with a two-digit year YY is rewritten to
\* DD-MM-YYYY with the year 20YY.
C22_AsStated ==
    (pc = "normalized" /\ HasTwoDigitYear(date_in)) =>
        /\ FullMatch(Canonical, date_out[1])
        /\ LastChars(date_out[1], 4) = <<"2", "0">> \o LastChars(date_in, 2)

\* C22, amended: a recognized date with a two-digit year YY is rewritten to
\* DD-MM-YYYY, day and month of two digits, with the year 20YY when YY is at most
\* 50 and 19YY when YY is above 50.
C22_YearExpansion ==
    (pc = "normalized" /\ HasTwoDigitYear(date_in)) =>
        /\ FullMatch(Canonical, date_out[1])
        /\ LastChars(date_out[1], 4) =
                (IF YearValue(LastChars(date_in, 2)) <= 50 THEN <<"2", "0">> ELSE <<"1", "9">>)
                    \o LastChars(date_in, 2)

\* "1-2-99" has been rewritten to "01-02-1999"
C22_Witness ==
    /\ pc = "normalized"
    /\ date_in = <<"1", "-", "2", "-", "9", "9">>
    /\ date_out[1] = <<"0", "1", "-", "0", "2", "-", "1", "9", "9", "9">>

\* ------------------------------------------------------------------ properties of the candidate ranking

\* find_entity has returned for every kind
Detected == pc = "select_ifsc"

\* the positions of the tokens with the value of tokens[k]
SameValue(k) == {j \in 1..Len(tokens) : clean_normalized(tokens[j].text) = clean_normalized(tokens[k].text)}

DistinctValues == {clean_normalized(tokens[k].text) : k \in 1..Len(tokens)}

\* C23: find_entity returns at most top_n candidates, in the order of
\* non-increasing score, each with a score above 0, no two with the same value
\* after removing dashes and spaces and upper-casing, and each the first token of
\* its value, the only one of its value that is scored.
C23_CandidateRanking ==
    Detected =>
        \A e \in DetectedTypes :
            /\ Len(candidates[e]) <= top_n
            /\ \A i \in 1..Len(candidates[e]) :
                  /\ candidates[e][i].score > 0
                  /\ i > 1 => candidates[e][i - 1].score >= candidates[e][i].score
                  /\ \A j \in 1..Len(candidates[e]) :
                        i # j => clean_normalized(candidates[e][i].token.text)
                                    # clean_normalized(candidates[e][j].token.text)
                  /\ \E k \in 1..Len(tokens) :
                        /\ tokens[k] = candidates[e][i].token
                        /\ \A j \in SameValue(k) : k <= j

\* six numbers have the format of an account number and five of them, the
\* five grouped ones, are the candidates; they have the same score
C23_Witness ==
    /\ Detected
    /\ full_text = <<GroupedLine, NumberLine>>
    /\ Len(candidates["ACCOUNT_NUMBER"]) = top_n
    /\ candidates["ACCOUNT_NUMBER"][1].token.text = Grouped("1")
    /\ candidates["ACCOUNT_NUMBER"][5].token.text = Grouped("5")

\* C24: for a token list with fewer than top_n distinct values, a value of which
\* some occurrence scores above 0 for a kind is the value of a candidate
\* find_entity returns for that kind.
C24_NoShadowing ==
    (Detected /\ Cardinality(DistinctValues) < top_n) =>
        \A e \in DetectedTypes : \A k \in 1..Len(tokens) :
            score_token_for_entity(tokens[k], e) > 0 =>
                \E i \in 1..Len(candidates[e]) :
                    clean_normalized(candidates[e][i].token.text) = clean_normalized(tokens[k].text)

\* ------------------------------------------------------------------ properties of the invoice number

\* C25: in every record extract_invoice_data returns, a non-empty Invoice No. has
\* at least one digit.
C25_InvoiceNumberHasDigit ==
    Returned =>
        \/ result.record.Invoice_No = <<>>
        \/ \E i \in 1..Len(result.record.Invoice_No) : result.record.Invoice_No[i] \in Digit

\* ------------------------------------------------------------------ properties of the bank details

\* C26: in every record extract_invoice_data returns, IFSC Code is empty or has 4
\* upper-case letters and then 7 upper-case letters or digits, from the scorer
\* as from the inline fallback; with a non-empty IFSC Code, Bank Name is not
\* empty and is derive_bank_name(IFSC Code), whatever the inline bank name.
C26_IfscAndBankName ==
    Returned =>
        /\ \/ result.record.IFSC_Code = <<>>
           \/ FullMatch(IfscShape, result.record.IFSC_Code)
        /\ result.record.IFSC_Code # <<>> =>
              /\ result.record.Bank_Name # <<>>
              /\ result.record.Bank_Name = derive_bank_name(result.record.IFSC_Code)
        /\ result.record.Bank_Name \notin {<<>>, derive_bank_name(result.record.IFSC_Code)} =>
              /\ result.record.IFSC_Code = <<>>
              /\ result.record.Bank_Name = inline_bank.bank_name

\* the scorer found no code on "IFSC Code: BKID0004500 Mobile", the inline
\* fallback did; the inline bank name "HDFC Bank" of the line before is not used
C26_Witness ==
    /\ Returned
    /\ pdf_file.entries = <<BankNameLine, IfscMobileLine>>
    /\ candidates["IFSC"] = <<>>
    /\ inline_bank.ifsc = W_BKID
    /\ inline_bank.bank_name = LineText(<<W_HDFC, W_Bank>>)
    /\ result.record.IFSC_Code = W_BKID
    /\ result.record.Bank_Name = W_BankOfIndia

=============================================================================
